---------------------------- MODULE Spec2Model ----------------------------
(***************************************************************************)
(* Long-form chunked processing engine of the YouTube automation bot.      *)
(*                                                                         *)
(*   SpecSpeech  SpeechGenerator.generate_for_20k_words: batches of        *)
(*               concurrent synthesis calls, one retry per failed segment, *)
(*               the chunks_order.txt manifest.                            *)
(*   SpecSplit   SpeechGenerator._split_text_for_speech on bounded texts.  *)
(*   SpecChunks  RobustTextProcessor._create_overlapping_chunks on bounded *)
(*               texts.                                                    *)
(*   SpecMerge   the chunk mergers of RobustTextProcessor, TextProcessor   *)
(*               and DualClaudeProcessor on bounded chunk lists.           *)
(*   SpecProcess RobustTextProcessor.process_to_20k_words: the result      *)
(*               cache and the sequence of text-service calls of runs that *)
(*               follow each other.                                        *)
(*   SpecRetry   RobustTextProcessor._process_single_with_retry called on  *)
(*               its own: the retry policy under every kind of failure.    *)
(*   SpecWindow  the sliding window of RobustTextProcessor under calls     *)
(*               that time out, and a cancellation request.                *)
(*   SpecDocument  whole document runs: RobustTextProcessor, TextProcessor *)
(*               and the story writer of DualClaudeProcessor.              *)
(*   SpecPipeline  TextPipeline.process and UpdatedTextPipeline.process.   *)
(*   SpecParagraphs  _split_text_for_speech on documents with an oversized *)
(*               paragraph among ordinary ones.                            *)
(*   SpecAdapt   TextProcessor._adapt_prompt_for_length called on its own. *)
(*   SpecSummary RobustTextProcessor._extract_summary on bounded texts.    *)
(*   SpecBot     bot_improved: simulate_processing tasks and               *)
(*               cancel_process, interleaved.                              *)
(***************************************************************************)
EXTENDS Integers, Sequences, FiniteSets, TLC

\* ------------------------------------------------------------------------
\* Bounds of the model
\* ------------------------------------------------------------------------

\* largest number of segments handed to the batch dispatcher
MaxChunks == 7

\* longest text handed to _split_text_for_speech
MaxSplitLen == 7

\* speech_generator.py:20  self.max_chunk_size = 5000, scaled down so that
\* bounded texts reach it
max_chunk_size == 5

\* longest text handed to _create_overlapping_chunks
MaxTextLen == 13

\* most iterations of the chunker's while loop that are followed
MaxChunkList == 5

\* robust_text_processor.py:25  self.max_input_tokens = 20000 and
\* robust_text_processor.py:27  self.overlap_tokens = 2000, both scaled by
\* 1/2000 so that bounded texts span several chunks
max_input_tokens == 10
overlap_tokens == 1

\* longest chunk output and longest chunk list handed to a merger
MaxMergeLen == 3
MaxMergeChunks == 2

\* robust_text_processor.py:260  the longest overlap looked for, 500,
\* robust_text_processor.py:256  min_length = 50,
\* robust_text_processor.py:242  the significance threshold 100 and
\* dual_claude_processor.py:212  the compared paragraph prefix, 50,
\* scaled down in their order so that bounded chunk outputs reach them
find_overlap_max == 4
min_length == 1
significant_overlap == 2
paragraph_prefix == 2

\* most runs of process_to_20k_words that follow each other on one cache
MaxRuns == 2

\* number of chunks the sliding window makes of a long payload
LongChunks == 2

\* characters a word of a response takes with the space after it
chars_per_word == 2

\* most chunks TextProcessor makes of a text
MaxParts == 2

\* most chunks _adapt_prompt_for_length is called with on its own
MaxAdaptChunks == 4

\* longest ordinary paragraph of the documents made of paragraphs, and the
\* most characters an oversized paragraph has above max_chunk_size
MaxShortParagraph == 1
MaxLongExtra == 1

\* most projects a user creates
MaxProjects == 2

\* longest processed text handed to _extract_summary
MaxSummaryText == 6

\* robust_text_processor.py:266  max_length = 500, scaled down so that
\* bounded texts reach it
summary_max_length == 4

\* ------------------------------------------------------------------------
\* Program constants
\* ------------------------------------------------------------------------

\* robust_text_processor.py:188  max_tries=3
max_tries == 3

\* robust_text_processor.py:189  max_time=300
max_time == 300

\* robust_text_processor.py:213  timeout=120
call_timeout == 120

\* robust_text_processor.py:222  await asyncio.sleep(60)
rate_limit_pause == 60

\* robust_text_processor.py:73  if word_count < 18000
expand_below == 18000

\* robust_text_processor.py:299  text[-3000:]
expand_context == 3000

\* robust_text_processor.py:74  20000 - word_count
output_target == 20000

\* dual_claude_processor.py:22  self.target_words = 13500
target_words == 13500

\* dual_claude_processor.py:161  sections, a list of 4
story_sections == 4

\* dual_claude_processor.py:172  chunks[-1][-500:]
story_tail == 500

\* text_processor.py:17  self.output_target = 20000
text_output_target == 20000

\* speech_generator.py:21  self.parallel_limit = 5
parallel_limit == 5

\* speech_generator.py:90  await asyncio.sleep(3)
batch_pause == 3

\* ------------------------------------------------------------------------
\* State
\* ------------------------------------------------------------------------
VARIABLES
    \* generate_for_20k_words
    sp_pc,          \* position in generate_for_20k_words
    num_chunks,     \* len(chunks), the number of segments
    batch_start,    \* loop variable of the batch loop
    in_flight,      \* segment indices whose _synthesize_chunk call is running
    batch_results,  \* outcome of the gathered call of each segment of the batch
    res_i,          \* loop variable i of the result loop
    audio_files,    \* audio_files: the k of each appended speech_k.mp3
    manifest,       \* lines of chunks_order.txt, each <<index, k>>
    calls,          \* number of _synthesize_chunk calls issued per segment
    first_failed,   \* segments whose gathered call raised
    perm_failed,    \* segments whose retry raised as well
    out_of_order,   \* some call completed before a call of a lower index
    sp_slept,       \* seconds spent in the pauses between batches
    \* _split_text_for_speech
    split_pc,       \* "call" before, "done" after the split
    split_text,     \* the argument text, a sequence of characters
    split_chunks,   \* the returned list of segments
    \* _create_overlapping_chunks
    ck_pc,          \* "loop" inside the while loop, "done" once returned
    ck_text,        \* the argument text, a sequence of characters
    ck_start,       \* start
    ck_chunks,      \* chunks: records of (chunk, start, end)
    \* the chunk mergers
    mg_pc,          \* "start", "loop" inside the for loop, "done"
    mg_kind,        \* which merger runs: "robust", "text" or "dual"
    mg_chunks,      \* the argument list of chunk outputs
    mg_i,           \* loop variable i
    mg_merged,      \* merged
    mg_prev,        \* merged as it was before the last iteration
    mg_result,      \* the returned text
    \* process_to_20k_words and _process_single_with_retry
    pr_pc,          \* "idle", "in_call", "rl_sleep", "backoff", "pause",
                    \* "returned", "raised"
    pr_run,         \* number of runs started
    pr_args,        \* original_text and use_cache of the current run
    pr_cache,       \* the cache directory: cache key -> stored text
    pr_cache0,      \* the cache as it was when the current run started
    pr_readable,    \* whether the run could read its cache file
    pr_stage,       \* whose call runs: "single", "chunk", "expand", or
                    \* "direct" when the decorated method is called alone
    pr_chunk_i,     \* loop variable i of _process_with_sliding_window
    pr_total,       \* len(chunks) of the sliding window, 0 on the single path
    pr_parts,       \* processed_parts
    pr_result,      \* result
    pr_tries,       \* tries of the retry decorator
    pr_elapsed,     \* seconds since the decorated call was entered
    pr_attempt_elapsed, \* elapsed as the decorator read it before the attempt
    pr_errors,      \* the errors raised by the attempts of the decorated call
    pr_calls,       \* text-service calls issued by the current run
    pr_prompt,      \* what the prompt of the current call carries
    pr_paused,      \* seconds the decorated call spent in rate limit pauses
    pr_abandoned,   \* calls that timed out and still run in their thread
    cancel_requested, \* the run the user asked to cancel, 0 when none
    pr_prev,        \* what the run before the current one did
    \* DualClaudeProcessor._write_story_from_plan and
    \* TextProcessor.process_to_20k_words
    st_pc,          \* "idle", "in_call", "pause", "returned", "raised"
    st_kind,        \* "story" (DualClaudeProcessor), "text" (TextProcessor)
    st_stage,       \* whose call runs: "part" or "expand"
    st_i,           \* loop variable i
    st_total,       \* len(sections), len(chunks)
    st_parts,       \* chunks, processed_chunks
    st_result,      \* final_story, final_text
    st_calls,       \* text-service calls issued by the run
    st_request,     \* what the request of the current call carries
    \* TextPipeline.process and UpdatedTextPipeline.process
    pl_pc,          \* <<where, statement>>: "off", "try" with the number
                    \* of the next statement, "except", "returned", "raised"
    pl_kind,        \* "text" (TextPipeline), "updated" (UpdatedTextPipeline)
    pl_plan,        \* the step types of plan["text_steps"]
    pl_callbacks,   \* the events with a callback and those whose callback
                    \* raises
    pl_events,      \* the events _notify was called with, in order
    pl_logged,      \* the events whose callback raised
    pl_calls,       \* the external calls made, in order
    pl_status,      \* results["status"]
    pl_error,       \* the exception caught by the except clause
    pl_raised,      \* the exception process raised
    \* a method called on its own with given arguments
    fn_pc,          \* "call" before, "done" after the call
    fn_name,        \* the method
    fn_args,        \* its arguments
    fn_result,      \* what it returned, or the exception it raised
    \* bot_improved: for each project of active_processes, its entry and
    \* its simulate_processing task
    bot_pc,         \* position in simulate_processing
    bot_stage,      \* number of the stage of the loop, from 0
    bot_status,     \* active_processes[user_id][project_id]["status"]
    bot_stages,     \* the status of each stage in the project's entry
    bot_cancelled,  \* cancel_process has run for the project
    bot_sent        \* the completion message was sent

speechVars == <<sp_pc, num_chunks, batch_start, in_flight, batch_results,
                res_i, audio_files, manifest, calls, first_failed,
                perm_failed, out_of_order, sp_slept>>

splitVars == <<split_pc, split_text, split_chunks>>

chunkVars == <<ck_pc, ck_text, ck_start, ck_chunks>>

mergeVars == <<mg_pc, mg_kind, mg_chunks, mg_i, mg_merged, mg_prev,
               mg_result>>

procVars == <<pr_pc, pr_run, pr_args, pr_cache, pr_cache0, pr_readable,
              pr_stage,
              pr_chunk_i, pr_total, pr_parts, pr_result, pr_tries,
              pr_elapsed, pr_attempt_elapsed, pr_errors, pr_calls,
              pr_prompt, pr_paused, pr_abandoned, cancel_requested,
              pr_prev>>

storyVars == <<st_pc, st_kind, st_stage, st_i, st_total, st_parts,
               st_result, st_calls, st_request>>

pipeVars == <<pl_pc, pl_kind, pl_plan, pl_callbacks, pl_events, pl_logged,
              pl_calls, pl_status, pl_error, pl_raised>>

funcVars == <<fn_pc, fn_name, fn_args, fn_result>>

botVars == <<bot_pc, bot_stage, bot_status, bot_stages, bot_cancelled,
             bot_sent>>

vars == <<speechVars, splitVars, chunkVars, mergeVars, procVars, storyVars,
          pipeVars, funcVars, botVars>>

Min(a, b) == IF a < b THEN a ELSE b

Segments == 0 .. (num_chunks - 1)

\* ------------------------------------------------------------------------
\* SpeechGenerator.generate_for_20k_words
\* ------------------------------------------------------------------------

\* variables of the other operations, untouched by the dispatcher
SpeechFrame ==
    UNCHANGED <<splitVars, chunkVars, mergeVars, procVars, storyVars,
                pipeVars, funcVars, botVars>>

\* the other operations at rest
SplitIdle ==
    /\ split_pc = "idle"
    /\ split_text = << >>
    /\ split_chunks = << >>

ChunkIdle ==
    /\ ck_pc = "idle"
    /\ ck_text = << >>
    /\ ck_start = 0
    /\ ck_chunks = << >>

MergeIdle ==
    /\ mg_pc = "idle"
    /\ mg_kind = "none"
    /\ mg_chunks = << >>
    /\ mg_i = 0
    /\ mg_merged = << >>
    /\ mg_prev = << >>
    /\ mg_result = << >>

\* the payloads: texts told apart by their first 1000 characters (prefix)
\* and by what follows (tail); a payload with tail 2 is longer than
\* max_input_tokens * 4 characters
Payloads == [prefix : {1, 2}, tail : {1, 2}]

\* cache_key of _get_cache_key: the digest of text[:1000], prompt and model
CacheKeys == {<<prefix, "prompt", "model">> : prefix \in {1, 2}}

\* None of Python, and the empty text: both are false in `if cached_result`
None == << >>

ProcIdle ==
    /\ pr_pc = "off"
    /\ pr_run = 0
    /\ pr_args = None
    /\ pr_cache = [key \in CacheKeys |-> None]
    /\ pr_cache0 = [key \in CacheKeys |-> None]
    /\ pr_readable = TRUE
    /\ pr_stage = "none"
    /\ pr_chunk_i = 0
    /\ pr_total = 0
    /\ pr_parts = << >>
    /\ pr_result = None
    /\ pr_tries = 0
    /\ pr_elapsed = 0
    /\ pr_attempt_elapsed = 0
    /\ pr_errors = << >>
    /\ pr_calls = 0
    /\ pr_prompt = None
    /\ pr_paused = 0
    /\ pr_abandoned = 0
    /\ cancel_requested = 0
    /\ pr_prev = None

StoryIdle ==
    /\ st_pc = "off"
    /\ st_kind = "none"
    /\ st_stage = "none"
    /\ st_i = 0
    /\ st_total = 0
    /\ st_parts = << >>
    /\ st_result = None
    /\ st_calls = 0
    /\ st_request = None

PipeIdle ==
    /\ pl_pc = <<"off", 0>>
    /\ pl_kind = "none"
    /\ pl_plan = {}
    /\ pl_callbacks = [registered |-> {}, raising |-> {}]
    /\ pl_events = << >>
    /\ pl_logged = {}
    /\ pl_calls = << >>
    /\ pl_status = "none"
    /\ pl_error = None
    /\ pl_raised = None

FuncIdle ==
    /\ fn_pc = "idle"
    /\ fn_name = "none"
    /\ fn_args = << >>
    /\ fn_result = << >>

\* the projects a user may create
Projects == 1 .. MaxProjects

\* no project in active_processes
BotIdle ==
    /\ bot_pc = [p \in Projects |-> "idle"]
    /\ bot_stage = [p \in Projects |-> 0]
    /\ bot_status = [p \in Projects |-> "none"]
    /\ bot_stages = [p \in Projects |-> << >>]
    /\ bot_cancelled = [p \in Projects |-> FALSE]
    /\ bot_sent = [p \in Projects |-> FALSE]

SpeechInit ==
    /\ SplitIdle
    /\ ChunkIdle
    /\ MergeIdle
    /\ ProcIdle
    /\ StoryIdle
    /\ PipeIdle
    /\ FuncIdle
    /\ BotIdle
    /\ sp_pc = "loop"
    /\ num_chunks \in 0 .. MaxChunks
    /\ batch_start = 0
    /\ in_flight = {}
    /\ batch_results = << >>
    /\ res_i = 0
    /\ audio_files = << >>
    /\ manifest = << >>
    /\ calls = [k \in 0 .. (num_chunks - 1) |-> 0]
    /\ first_failed = {}
    /\ perm_failed = {}
    /\ out_of_order = FALSE
    /\ sp_slept = 0

\* batch_end = min(batch_start + self.parallel_limit, len(chunks))
BatchEndUnbounded(bs, n) == n
BatchEnd(bs, n) == Min(bs + parallel_limit, n)

\* the batch: chunk_index = batch_start + i for i in range(len(batch))
BatchIndices == batch_start .. (BatchEnd(batch_start, num_chunks) - 1)
BatchLen == BatchEnd(batch_start, num_chunks) - batch_start

\* output_path = os.path.join(output_dir, f"speech_{chunk_index:04d}.mp3"):
\* the path is determined by chunk_index, which stands for it
OutputPath(chunk_index) == chunk_index

\* audio_files.append(result['path'])
AppendResultFront(files, path) == <<path>> \o files
AppendResult(files, path) == Append(files, path)

\* isinstance(result, Exception)
NeedsRetryAlways(result) == TRUE
NeedsRetry(result) == result = "exc"

\* for i, path in enumerate(audio_files): f.write(f"{i:04d}|{path}\n")
ManifestLines(files) == [j \in 1 .. Len(files) |-> <<j - 1, files[j]>>]

\* lines 49-67: build the tasks of the batch and hand them to asyncio.gather,
\* which starts them all
DispatchBatch ==
    /\ sp_pc = "loop"
    /\ batch_start < num_chunks
    /\ in_flight' = BatchIndices
    /\ calls' = [k \in DOMAIN calls |->
                    IF k \in BatchIndices THEN calls[k] + 1 ELSE calls[k]]
    /\ batch_results' = [k \in BatchIndices |-> "pending"]
    /\ sp_pc' = "gather"
    /\ UNCHANGED <<num_chunks, batch_start, res_i, audio_files, manifest,
                   first_failed, perm_failed, out_of_order, sp_slept>>
    /\ SpeechFrame

\* lines 160-208 under gather(return_exceptions=True): a running call of the
\* batch completes, with a result dict or with an exception, in any order
SynthesizeComplete(k, outcome) ==
    /\ sp_pc = "gather"
    /\ k \in in_flight
    /\ in_flight' = in_flight \ {k}
    /\ batch_results' = [batch_results EXCEPT ![k] = outcome]
    /\ first_failed' = IF outcome = "exc" THEN first_failed \cup {k}
                       ELSE first_failed
    /\ out_of_order' = (out_of_order \/ \E j \in in_flight : j < k)
    /\ UNCHANGED <<sp_pc, num_chunks, batch_start, res_i, audio_files,
                   manifest, calls, perm_failed, sp_slept>>
    /\ SpeechFrame

\* line 67: gather returns once every call of the batch has completed
GatherReturn ==
    /\ sp_pc = "gather"
    /\ in_flight = {}
    /\ sp_pc' = "results"
    /\ res_i' = 0
    /\ UNCHANGED <<num_chunks, batch_start, in_flight, batch_results,
                   audio_files, manifest, calls, first_failed, perm_failed,
                   out_of_order, sp_slept>>
    /\ SpeechFrame

\* lines 70-79, 84-86: one iteration of the result loop up to its await
ProcessResult ==
    /\ sp_pc = "results"
    /\ res_i < BatchLen
    /\ LET k == batch_start + res_i IN
       IF NeedsRetry(batch_results[k])
       THEN /\ sp_pc' = "retry"
            /\ in_flight' = {k}
            /\ calls' = [calls EXCEPT ![k] = @ + 1]
            /\ UNCHANGED <<res_i, audio_files>>
       ELSE /\ audio_files' = AppendResult(audio_files, OutputPath(k))
            /\ res_i' = res_i + 1
            /\ UNCHANGED <<sp_pc, in_flight, calls>>
    /\ UNCHANGED <<num_chunks, batch_start, batch_results, manifest,
                   first_failed, perm_failed, out_of_order, sp_slept>>
    /\ SpeechFrame

\* lines 77-86: the awaited retry completes; an exception is logged and the
\* loop continues, a result is appended
RetryCompleteRaises(outcome) ==
    /\ sp_pc = "retry"
    /\ LET k == batch_start + res_i IN
       /\ in_flight' = {}
       /\ IF outcome = "exc"
          THEN /\ perm_failed' = perm_failed \cup {k}
               /\ sp_pc' = "raised"
               /\ UNCHANGED <<audio_files, res_i>>
          ELSE /\ audio_files' = AppendResult(audio_files, OutputPath(k))
               /\ sp_pc' = "results"
               /\ res_i' = res_i + 1
               /\ UNCHANGED perm_failed
    /\ UNCHANGED <<num_chunks, batch_start, batch_results, manifest, calls,
                   first_failed, out_of_order, sp_slept>>
    /\ SpeechFrame

RetryComplete(outcome) ==
    /\ sp_pc = "retry"
    /\ LET k == batch_start + res_i IN
       /\ in_flight' = {}
       /\ IF outcome = "exc"
          THEN /\ perm_failed' = perm_failed \cup {k}
               /\ UNCHANGED audio_files
          ELSE /\ audio_files' = AppendResult(audio_files, OutputPath(k))
               /\ UNCHANGED perm_failed
    /\ res_i' = res_i + 1
    /\ sp_pc' = "results"
    /\ UNCHANGED <<num_chunks, batch_start, batch_results, manifest, calls,
                   first_failed, out_of_order, sp_slept>>
    /\ SpeechFrame

\* lines 88-90: end of the result loop; pause when another batch follows
EndBatch ==
    /\ sp_pc = "results"
    /\ res_i = BatchLen
    /\ IF BatchEnd(batch_start, num_chunks) < num_chunks
       THEN /\ sp_pc' = "sleep"
            /\ UNCHANGED batch_start
       ELSE /\ sp_pc' = "loop"
            /\ batch_start' = batch_start + parallel_limit
    /\ UNCHANGED <<num_chunks, in_flight, batch_results, res_i, audio_files,
                   manifest, calls, first_failed, perm_failed, out_of_order,
                   sp_slept>>
    /\ SpeechFrame

\* line 90: the seconds slept so far, without and with a pause of
\* batch_pause seconds more
SleptNoMore(seconds) == seconds
Slept(seconds) == seconds + batch_pause

\* line 90: await asyncio.sleep(3), then the next iteration of range()
SleepDone ==
    /\ sp_pc = "sleep"
    /\ sp_pc' = "loop"
    /\ batch_start' = batch_start + parallel_limit
    /\ sp_slept' = Slept(sp_slept)
    /\ UNCHANGED <<num_chunks, in_flight, batch_results, res_i, audio_files,
                   manifest, calls, first_failed, perm_failed, out_of_order>>
    /\ SpeechFrame

\* lines 92-117: write chunks_order.txt and return the result dict
WriteManifest ==
    /\ sp_pc = "loop"
    /\ batch_start >= num_chunks
    /\ manifest' = ManifestLines(audio_files)
    /\ sp_pc' = "done"
    /\ UNCHANGED <<num_chunks, batch_start, in_flight, batch_results, res_i,
                   audio_files, calls, first_failed, perm_failed,
                   out_of_order, sp_slept>>
    /\ SpeechFrame

SpeechNext ==
    \/ DispatchBatch
    \/ \E k \in Segments, outcome \in {"ok", "exc"} :
            SynthesizeComplete(k, outcome)
    \/ GatherReturn
    \/ ProcessResult
    \/ \E outcome \in {"ok", "exc"} : RetryComplete(outcome)
    \/ EndBatch
    \/ SleepDone
    \/ WriteManifest

SpecSpeech == SpeechInit /\ [][SpeechNext]_vars


\* ------------------------------------------------------------------------
\* SpeechGenerator._split_text_for_speech
\* ------------------------------------------------------------------------

\* the characters of the bounded texts: a letter, the full stop, the space
\* and the newline
NL == "\n"
SplitAlphabet == {"a", ".", " ", NL}
Whitespace == {" ", NL}

SplitTexts == UNION {[1 .. n -> SplitAlphabet] : n \in 0 .. MaxSplitLen}

\* s[from:] of Python, from counted from 1
Drop(s, from) == SubSeq(s, from, Len(s))

\* the least position at or after from where s holds the characters c1 c2,
\* 0 when there is none
RECURSIVE FindPair(_, _, _, _)
FindPair(s, c1, c2, from) ==
    IF from + 1 > Len(s) THEN 0
    ELSE IF s[from] = c1 /\ s[from + 1] = c2 THEN from
    ELSE FindPair(s, c1, c2, from + 1)

\* s.split(c1 + c2) of Python: separators are taken left to right and do
\* not overlap; a text without separator is returned as one piece
RECURSIVE SplitOn(_, _, _)
SplitOn(s, c1, c2) ==
    LET at == FindPair(s, c1, c2, 1) IN
    IF at = 0 THEN <<s>>
    ELSE <<SubSeq(s, 1, at - 1)>> \o SplitOn(Drop(s, at + 2), c1, c2)

\* s.strip() of Python: whitespace removed at both ends
RECURSIVE LStrip(_)
LStrip(s) ==
    IF s # << >> /\ s[1] \in Whitespace THEN LStrip(Tail(s)) ELSE s

RECURSIVE RStrip(_)
RStrip(s) ==
    IF s # << >> /\ s[Len(s)] \in Whitespace
    THEN RStrip(SubSeq(s, 1, Len(s) - 1)) ELSE s

Strip(s) == RStrip(LStrip(s))

\* if current_chunk: chunks.append(current_chunk.strip())
FlushNothing(chunks, current_chunk) == chunks
Flush(chunks, current_chunk) ==
    IF current_chunk # << >> THEN Append(chunks, Strip(current_chunk))
    ELSE chunks

\* lines 137-143: one sentence of a paragraph longer than max_chunk_size
SentenceStep(st, sentence) ==
    IF Len(st.current_chunk) + Len(sentence) + 2 < max_chunk_size
    THEN [st EXCEPT !.current_chunk = @ \o sentence \o <<".", " ">>]
    ELSE [chunks |-> Flush(st.chunks, st.current_chunk),
          current_chunk |-> sentence \o <<".", " ">>]

RECURSIVE SentenceLoop(_, _)
SentenceLoop(st, sentences) ==
    IF sentences = << >> THEN st
    ELSE SentenceLoop(SentenceStep(st, Head(sentences)), Tail(sentences))

\* lines 127-152: one paragraph
ParagraphStep(st, para) ==
    IF Len(para) > max_chunk_size
    THEN SentenceLoop([chunks |-> Flush(st.chunks, st.current_chunk),
                       current_chunk |-> << >>],
                      SplitOn(para, ".", " "))
    ELSE IF Len(st.current_chunk) + Len(para) + 4 < max_chunk_size
    THEN [st EXCEPT !.current_chunk = @ \o para \o <<NL, NL>>]
    ELSE [chunks |-> Flush(st.chunks, st.current_chunk),
          current_chunk |-> para \o <<NL, NL>>]

RECURSIVE ParagraphLoop(_, _)
ParagraphLoop(st, paragraphs) ==
    IF paragraphs = << >> THEN st
    ELSE ParagraphLoop(ParagraphStep(st, Head(paragraphs)), Tail(paragraphs))

\* lines 119-158
SplitTextForSpeech(text) ==
    LET st == ParagraphLoop([chunks |-> << >>, current_chunk |-> << >>],
                            SplitOn(text, NL, NL))
    IN  Flush(st.chunks, st.current_chunk)

SplitFrame ==
    UNCHANGED <<speechVars, chunkVars, mergeVars, procVars, storyVars,
                pipeVars, funcVars, botVars>>

\* the dispatcher at rest
SpeechIdle ==
    /\ sp_pc = "idle"
    /\ num_chunks = 0
    /\ batch_start = 0
    /\ in_flight = {}
    /\ batch_results = << >>
    /\ res_i = 0
    /\ audio_files = << >>
    /\ manifest = << >>
    /\ calls = << >>
    /\ first_failed = {}
    /\ perm_failed = {}
    /\ out_of_order = FALSE
    /\ sp_slept = 0

SplitInit ==
    /\ SpeechIdle
    /\ ChunkIdle
    /\ MergeIdle
    /\ ProcIdle
    /\ StoryIdle
    /\ PipeIdle
    /\ FuncIdle
    /\ BotIdle
    /\ split_pc = "call"
    /\ split_text \in SplitTexts
    /\ split_chunks = << >>

\* line 41: chunks = self._split_text_for_speech(text)
SplitCall ==
    /\ split_pc = "call"
    /\ split_chunks' = SplitTextForSpeech(split_text)
    /\ split_pc' = "done"
    /\ UNCHANGED split_text
    /\ SplitFrame

SplitNext == SplitCall

SpecSplit == SplitInit /\ [][SplitNext]_vars

\* ------------------------------------------------------------------------
\* RobustTextProcessor._create_overlapping_chunks
\* ------------------------------------------------------------------------

\* chunk_size = self.max_input_tokens * 4 // 5
chunk_size == (max_input_tokens * 4) \div 5

\* overlap_size = self.overlap_tokens * 4
overlap_size == overlap_tokens * 4

\* the characters of the bounded texts: a letter and a sentence terminator
Terminators == {".", "!", "?"}
ChunkAlphabet == {"a", "."}

ChunkTexts == UNION {[1 .. n -> ChunkAlphabet] : n \in 0 .. MaxTextLen}

\* text[i] of Python, i counted from 0
CharAt(text, i) == text[i + 1]

\* text[start:end] of Python for 0 <= start: the end is clamped to len(text)
Slice(text, start, end) == SubSeq(text, start + 1, Min(end, Len(text)))

\* while end < len(text) and text[end] not in '.!?': end += 1
RECURSIVE SeekTerminator(_, _)
SeekTerminator(text, end) ==
    IF end < Len(text) /\ CharAt(text, end) \notin Terminators
    THEN SeekTerminator(text, end + 1)
    ELSE end

\* lines 139-146: the end of the chunk that starts at start
ChunkEnd(text, start) ==
    LET end == start + chunk_size IN
    IF end < Len(text) THEN SeekTerminator(text, end) + 1 ELSE end

\* while start > 0 and text[start-1] not in '.!?': start -= 1
RECURSIVE SeekBack(_, _)
SeekBack(text, start) ==
    IF start > 0 /\ CharAt(text, start - 1) \notin Terminators
    THEN SeekBack(text, start - 1)
    ELSE start

\* start = end - overlap_size
OverlapStartPastEnd(end) == end + overlap_size
OverlapStart(end) == end - overlap_size

\* lines 152-157: the start of the chunk after the one that ends at end
NextStart(text, end) ==
    LET start == OverlapStart(end) IN
    IF start > 0 /\ start < Len(text) THEN SeekBack(text, start) ELSE start

ChunkFrame ==
    UNCHANGED <<speechVars, splitVars, mergeVars, procVars, storyVars,
                pipeVars, funcVars, botVars>>

ChunkInit ==
    /\ SpeechIdle
    /\ SplitIdle
    /\ MergeIdle
    /\ ProcIdle
    /\ StoryIdle
    /\ PipeIdle
    /\ FuncIdle
    /\ BotIdle
    /\ ck_pc = "loop"
    /\ ck_text \in ChunkTexts
    /\ ck_start = 0
    /\ ck_chunks = << >>

\* lines 137-157: one iteration of the while loop
ChunkIteration ==
    /\ ck_pc = "loop"
    /\ ck_start < Len(ck_text)
    /\ Len(ck_chunks) < MaxChunkList
    /\ LET end == ChunkEnd(ck_text, ck_start) IN
       /\ ck_chunks' = Append(ck_chunks,
                              [chunk |-> Slice(ck_text, ck_start, end),
                               start |-> ck_start,
                               end |-> end])
       /\ ck_start' = NextStart(ck_text, end)
    /\ UNCHANGED <<ck_pc, ck_text>>
    /\ ChunkFrame

\* lines 137, 159: the loop condition fails and chunks is returned
ChunkReturn ==
    /\ ck_pc = "loop"
    /\ ~(ck_start < Len(ck_text))
    /\ ck_pc' = "done"
    /\ UNCHANGED <<ck_text, ck_start, ck_chunks>>
    /\ ChunkFrame

ChunkNext ==
    \/ ChunkIteration
    \/ ChunkReturn

SpecChunks == ChunkInit /\ [][ChunkNext]_vars

\* ------------------------------------------------------------------------
\* The chunk mergers:
\*   RobustTextProcessor._merge_chunks_intelligently and _find_overlap,
\*   TextProcessor._merge_chunks_intelligently,
\*   DualClaudeProcessor._merge_story_chunks
\* ------------------------------------------------------------------------

\* the characters of the bounded chunk outputs: a letter, the full stop and
\* the newline
MergeAlphabet == {"a", ".", NL}

MergeTexts == UNION {[1 .. n -> MergeAlphabet] : n \in 0 .. MaxMergeLen}

MergeLists == UNION {[1 .. n -> MergeTexts] : n \in 0 .. MaxMergeChunks}

Min3(a, b, c) == Min(Min(a, b), c)

\* s[-n:] of Python for 1 <= n <= len(s)
LastN(s, n) == SubSeq(s, Len(s) - n + 1, Len(s))

\* s[:n] of Python for 0 <= n
FirstN(s, n) == SubSeq(s, 1, Min(n, Len(s)))

\* s.endswith(t) of Python
EndsWith(s, t) == Len(t) <= Len(s) /\ LastN(s, Len(t)) = t

\* s.find(t) of Python, counted from 0; -1 when t does not occur
RECURSIVE FindFrom(_, _, _)
FindFrom(s, t, at) ==
    IF at + Len(t) > Len(s) THEN -1
    ELSE IF SubSeq(s, at + 1, at + Len(t)) = t THEN at
    ELSE FindFrom(s, t, at + 1)

Find(s, t) == FindFrom(s, t, 0)

\* robust_text_processor.py:260-264: the lengths from `length` down to
\* min_length + 1 are tried; << >> stands for None
RECURSIVE FindOverlapFrom(_, _, _)
FindOverlapFrom(text1, text2, length) ==
    IF length <= min_length THEN << >>
    ELSE IF LastN(text1, length) = FirstN(text2, length)
    THEN LastN(text1, length)
    ELSE FindOverlapFrom(text1, text2, length - 1)

\* robust_text_processor.py:256-264
FindOverlap(text1, text2) ==
    FindOverlapFrom(text1, text2,
                    Min3(Len(text1), Len(text2), find_overlap_max))

\* robust_text_processor.py:242-246: the chunk without a significant overlap
RemoveOverlap(merged, current_chunk) ==
    LET overlap == FindOverlap(merged, current_chunk) IN
    IF overlap # << >> /\ Len(overlap) > significant_overlap
    THEN LET overlap_index == Find(current_chunk, overlap) IN
         IF overlap_index # -1
         THEN Drop(current_chunk, overlap_index + Len(overlap) + 1)
         ELSE current_chunk
    ELSE current_chunk

\* robust_text_processor.py:249-250
\* if not merged.rstrip().endswith(('.', '!', '?')): merged += "."
ClosePeriodNever(merged) == merged
ClosePeriod(merged) ==
    LET stripped == RStrip(merged) IN
    IF stripped # << >> /\ stripped[Len(stripped)] \in Terminators
    THEN merged
    ELSE merged \o <<".">>

\* robust_text_processor.py:237-252: one iteration of the loop
RobustMergeOne(merged, chunk) ==
    ClosePeriod(merged) \o <<NL, NL>> \o LStrip(RemoveOverlap(merged, chunk))

\* text_processor.py:140-147: both branches append the chunk after "\n\n"
TextMergeOne(merged, chunk) == merged \o <<NL, NL>> \o chunk

\* '\n\n'.join(pieces) of Python
RECURSIVE JoinParagraphs(_)
JoinParagraphs(pieces) ==
    IF pieces = << >> THEN << >>
    ELSE IF Len(pieces) = 1 THEN pieces[1]
    ELSE pieces[1] \o <<NL, NL>> \o JoinParagraphs(Tail(pieces))

\* dual_claude_processor.py:207-215: one iteration of the loop
DualMergeOne(merged, chunk) ==
    LET paragraphs == SplitOn(chunk, NL, NL)
        head == FirstN(Strip(paragraphs[1]), paragraph_prefix)
    IN  IF paragraphs # << >> /\ EndsWith(RStrip(merged), head)
        THEN merged \o <<NL, NL>> \o JoinParagraphs(Tail(paragraphs))
        ELSE merged \o <<NL, NL>> \o chunk

MergeFrame ==
    UNCHANGED <<speechVars, splitVars, chunkVars, procVars, storyVars,
                pipeVars, funcVars, botVars>>

MergeInit ==
    /\ SpeechIdle
    /\ SplitIdle
    /\ ChunkIdle
    /\ ProcIdle
    /\ StoryIdle
    /\ PipeIdle
    /\ FuncIdle
    /\ BotIdle
    /\ mg_pc = "start"
    /\ mg_kind \in {"robust", "text", "dual"}
    /\ mg_chunks \in MergeLists
    /\ mg_i = 0
    /\ mg_merged = << >>
    /\ mg_prev = << >>
    /\ mg_result = << >>

\* if not chunks: return ""  /  merged = chunks[0]
MergeStart ==
    /\ mg_pc = "start"
    /\ IF mg_chunks = << >>
       THEN /\ mg_pc' = "done"
            /\ UNCHANGED <<mg_i, mg_merged>>
       ELSE /\ mg_pc' = "loop"
            /\ mg_merged' = mg_chunks[1]
            /\ mg_i' = 1
    /\ UNCHANGED <<mg_kind, mg_chunks, mg_prev, mg_result>>
    /\ MergeFrame

\* robust_text_processor.py:236-252: one iteration of the loop; the loop
\* variable i counts from 0, mg_chunks from 1
RobustMergeStep ==
    /\ mg_pc = "loop"
    /\ mg_kind = "robust"
    /\ mg_i < Len(mg_chunks)
    /\ mg_prev' = mg_merged
    /\ mg_merged' = RobustMergeOne(mg_merged, mg_chunks[mg_i + 1])
    /\ mg_i' = mg_i + 1
    /\ UNCHANGED <<mg_pc, mg_kind, mg_chunks, mg_result>>
    /\ MergeFrame

\* text_processor.py:138-147: one iteration of the loop; the loop
\* variable i counts from 0, mg_chunks from 1
TextMergeStep ==
    /\ mg_pc = "loop"
    /\ mg_kind = "text"
    /\ mg_i < Len(mg_chunks)
    /\ mg_prev' = mg_merged
    /\ mg_merged' = TextMergeOne(mg_merged, mg_chunks[mg_i + 1])
    /\ mg_i' = mg_i + 1
    /\ UNCHANGED <<mg_pc, mg_kind, mg_chunks, mg_result>>
    /\ MergeFrame

\* dual_claude_processor.py:206-215: one iteration of the loop; the loop
\* variable i counts from 0, mg_chunks from 1
DualMergeStep ==
    /\ mg_pc = "loop"
    /\ mg_kind = "dual"
    /\ mg_i < Len(mg_chunks)
    /\ mg_prev' = mg_merged
    /\ mg_merged' = DualMergeOne(mg_merged, mg_chunks[mg_i + 1])
    /\ mg_i' = mg_i + 1
    /\ UNCHANGED <<mg_pc, mg_kind, mg_chunks, mg_result>>
    /\ MergeFrame

\* return merged  /  return merged.strip() in _merge_story_chunks
MergeReturn ==
    /\ mg_pc = "loop"
    /\ mg_i = Len(mg_chunks)
    /\ mg_result' = IF mg_kind = "dual" THEN Strip(mg_merged) ELSE mg_merged
    /\ mg_pc' = "done"
    /\ UNCHANGED <<mg_kind, mg_chunks, mg_i, mg_merged, mg_prev>>
    /\ MergeFrame

MergeNext ==
    \/ MergeStart
    \/ RobustMergeStep
    \/ TextMergeStep
    \/ DualMergeStep
    \/ MergeReturn

SpecMerge == MergeInit /\ [][MergeNext]_vars

\* documents made of paragraphs: an oversized paragraph of sentences with
\* up to one short paragraph before it and up to one after it
ParagraphAlphabet == {"a", ".", " "}

ShortParagraphs ==
    UNION {[1 .. n -> ParagraphAlphabet] : n \in 0 .. MaxShortParagraph}

LongParagraphs ==
    UNION {[1 .. n -> ParagraphAlphabet] :
              n \in (max_chunk_size + 1) .. (max_chunk_size + MaxLongExtra)}

ParagraphLists ==
    {<<long>> : long \in LongParagraphs}
        \cup {<<short, long>> :
                 short \in ShortParagraphs, long \in LongParagraphs}
        \cup {<<long, short>> :
                 long \in LongParagraphs, short \in ShortParagraphs}
        \cup {<<before, long, after>> :
                 before \in ShortParagraphs, long \in LongParagraphs,
                 after \in ShortParagraphs}

ParagraphInit ==
    /\ SpeechIdle
    /\ ChunkIdle
    /\ MergeIdle
    /\ ProcIdle
    /\ StoryIdle
    /\ PipeIdle
    /\ FuncIdle
    /\ BotIdle
    /\ split_pc = "call"
    /\ \E paragraphs \in ParagraphLists :
           split_text = JoinParagraphs(paragraphs)
    /\ split_chunks = << >>

SpecParagraphs == ParagraphInit /\ [][SplitNext]_vars

\* ------------------------------------------------------------------------
\* RobustTextProcessor.process_to_20k_words, _process_with_sliding_window,
\* _process_single_with_retry, _expand_text and the cache
\* ------------------------------------------------------------------------

\* the word counts a response of the text service may have
ResponseWords == {9000, 18000}

\* how an attempt may fail: asyncio.TimeoutError, and anthropic.APIError for
\* a rate limit, a 5xx status, or a rejected key or request (fatal)
ErrorKinds == {"timeout", "rate_limit", "server_error", "fatal"}
TransientKinds == {"timeout", "rate_limit", "server_error"}

\* seconds an attempt may take before the service answers with an error; a
\* timeout takes the 120 seconds of wait_for
ErrorSeconds == {1, call_timeout - 1}

\* the failures the runs of SpecProcess meet
RunErrorKinds == {"rate_limit"}
RunErrorSeconds == {1}

\* lines 310-313: the key is made of text[:1000], prompt and model
GetCacheKey(payload) == <<payload.prefix, "prompt", "model">>

\* lines 44-50 and 315-324: no lookup without use_cache; the stored text,
\* None when the file is missing or cannot be read
CachedResultIgnored(use_cache, cache, cache_key, readable) == None
CachedResult(use_cache, cache, cache_key, readable) ==
    IF use_cache /\ readable THEN cache[cache_key] ELSE None

\* lines 326-333: the text is stored unless writing the file fails, which
\* is logged and otherwise ignored
SaveToCache(cache, cache_key, data, written) ==
    IF written THEN [cache EXCEPT ![cache_key] = data] ELSE cache

\* line 57: input_tokens > self.max_input_tokens
IsLong(payload) == payload.tail = 2

\* a text is the sequence of the word counts of the responses it is made
\* of; line 69: word_count = len(result.split())
RECURSIVE WordCount(_)
WordCount(text) ==
    IF text = << >> THEN 0 ELSE Head(text) + WordCount(Tail(text))

\* line 308: return text + "\n\n" + expansion
Expanded(text, expansion) == Append(text, expansion)

\* line 73: if word_count < 18000
NeedsExpansion(result) == WordCount(result) < expand_below

\* line 220: "rate_limit" in str(e).lower(), tested on anthropic.APIError
\* only (a timeout is caught at line 224)
PausesOnErrorNever(kind) == FALSE
PausesOnError(kind) == kind = "rate_limit"

\* the prompt of the single call, lines 64-66: the caller's prompt
BasePrompt == [chunk_index |-> 0, total_chunks |-> 1, context |-> None]

\* lines 266-282: the summary is made of sentences of the given output
ExtractSummary(processed) == <<"summary of", processed>>

\* line 108: target_words_per_chunk=20000 // len(chunks), the same for
\* every chunk of a run
WindowTarget(total_chunks) == output_target \div total_chunks

\* lines 161-183: the prompt names the position of the chunk, the words it
\* should have (target_words_per_chunk of line 108) and carries
\* the summary of the part before it when there is one (the empty summary
\* of line 97 is None here)
ContextualPromptBare(chunk_index, total_chunks, previous_summary) ==
    [chunk_index |-> chunk_index, total_chunks |-> total_chunks,
     context |-> None,
     target_words_per_chunk |-> WindowTarget(total_chunks)]
ContextualPrompt(chunk_index, total_chunks, previous_summary) ==
    [chunk_index |-> chunk_index, total_chunks |-> total_chunks,
     context |-> previous_summary,
     target_words_per_chunk |-> WindowTarget(total_chunks)]

\* lines 291-306: the expansion request carries text[-3000:]; a response
\* is taken to have chars_per_word characters for each word
TextChars(text) == WordCount(text) * chars_per_word
ExpansionPrompt(text) ==
    [document_chars |-> Min(TextChars(text), expand_context)]

\* lines 185-190, the give-up test of backoff.on_exception after a failed
\* attempt: tries counts the attempts made, elapsed was read before the
\* attempt
GiveUpAfterTwo(tries, elapsed) == tries = max_tries - 1 \/ elapsed >= max_time
GiveUp(tries, elapsed) == tries = max_tries \/ elapsed >= max_time

\* lines 185-190, backoff.expo with full jitter: between 0 and 2^(tries-1)
\* seconds, never beyond max_time
BackoffWaits(tries, elapsed) ==
    {Min(w, max_time - elapsed) : w \in 0 .. 2 ^ (tries - 1)}

OthersFrame ==
    UNCHANGED <<speechVars, splitVars, chunkVars, mergeVars, storyVars,
                pipeVars, funcVars, botVars>>

\* no line of the text processors or of the speech generator writes the
\* cancellation mark of the bot
ProcFrame == OthersFrame /\ UNCHANGED cancel_requested

ProcInit ==
    /\ SpeechIdle
    /\ SplitIdle
    /\ ChunkIdle
    /\ MergeIdle
    /\ StoryIdle
    /\ PipeIdle
    /\ FuncIdle
    /\ BotIdle
    /\ pr_pc = "idle"
    /\ pr_run = 0
    /\ pr_args = None
    /\ pr_cache = [key \in CacheKeys |-> None]
    /\ pr_cache0 = [key \in CacheKeys |-> None]
    /\ pr_readable = TRUE
    /\ pr_stage = "none"
    /\ pr_chunk_i = 0
    /\ pr_total = 0
    /\ pr_parts = << >>
    /\ pr_result = None
    /\ pr_tries = 0
    /\ pr_elapsed = 0
    /\ pr_attempt_elapsed = 0
    /\ pr_errors = << >>
    /\ pr_calls = 0
    /\ pr_prompt = None
    /\ pr_paused = 0
    /\ pr_abandoned = 0
    /\ cancel_requested = 0
    /\ pr_prev = None

\* what is known of the current run once it is over
RunRecord ==
    IF pr_pc = "idle" THEN None
    ELSE [payload |-> pr_args.payload, use_cache |-> pr_args.use_cache,
          outcome |-> pr_pc,
          result |-> IF pr_pc = "returned" THEN pr_result ELSE None,
          calls |-> pr_calls]

\* lines 185-216 entered: the decorator starts its clock and issues the
\* first attempt
BeginInvocation(stage, calls_before, prompt) ==
    /\ pr_pc' = "in_call"
    /\ pr_stage' = stage
    /\ pr_prompt' = prompt
    /\ pr_paused' = 0
    /\ pr_tries' = 1
    /\ pr_elapsed' = 0
    /\ pr_attempt_elapsed' = 0
    /\ pr_errors' = << >>
    /\ pr_calls' = calls_before + 1

\* line 216 returns through the decorator: its locals are gone
EndInvocation ==
    /\ pr_prompt' = None
    /\ pr_paused' = 0
    /\ pr_tries' = 0
    /\ pr_elapsed' = 0
    /\ pr_attempt_elapsed' = 0
    /\ pr_errors' = << >>

\* lines 76-80: store the result when use_cache, then return it
SaveAndReturn(result) ==
    /\ \E written \in BOOLEAN :
          pr_cache' = IF pr_args.use_cache
                      THEN SaveToCache(pr_cache, GetCacheKey(pr_args.payload),
                                       result, written)
                      ELSE pr_cache
    /\ pr_result' = result
    /\ pr_pc' = "returned"
    /\ EndInvocation
    /\ UNCHANGED <<pr_stage, pr_calls>>

\* lines 68-80: count the words, expand when they are too few, else finish
AfterProcessing(result) ==
    IF NeedsExpansion(result)
    THEN /\ pr_result' = result
         /\ BeginInvocation("expand", pr_calls, ExpansionPrompt(result))
         /\ UNCHANGED pr_cache
    ELSE SaveAndReturn(result)

\* lines 44-66: the cache lookup and, on a miss, the first call
ProcessStart(payload, use_cache, readable) ==
    /\ pr_pc \in {"idle", "returned", "raised"}
    /\ pr_run < MaxRuns
    /\ readable \/ (use_cache /\ pr_cache[GetCacheKey(payload)] # None)
    /\ pr_run' = pr_run + 1
    /\ pr_prev' = RunRecord
    /\ pr_args' = [payload |-> payload, use_cache |-> use_cache]
    /\ pr_cache0' = pr_cache
    /\ pr_readable' = readable
    /\ pr_chunk_i' = 0
    /\ pr_parts' = << >>
    /\ LET cached_result ==
               CachedResult(use_cache, pr_cache, GetCacheKey(payload),
                            readable)
       IN  IF cached_result # None
           THEN /\ pr_pc' = "returned"
                /\ pr_result' = cached_result
                /\ pr_stage' = "none"
                /\ pr_calls' = 0
                /\ pr_total' = 0
                /\ EndInvocation
           ELSE /\ pr_result' = None
                /\ pr_total' = IF IsLong(payload) THEN LongChunks ELSE 0
                /\ IF IsLong(payload)
                   THEN BeginInvocation("chunk", 0,
                                        ContextualPrompt(0, LongChunks, None))
                   ELSE BeginInvocation("single", 0, BasePrompt)
    /\ UNCHANGED <<pr_cache, pr_abandoned>>
    /\ ProcFrame

\* _process_single_with_retry called on its own
RetryStart ==
    /\ pr_pc \in {"idle", "returned", "raised"}
    /\ pr_run < MaxRuns
    /\ pr_run' = pr_run + 1
    /\ pr_result' = None
    /\ BeginInvocation("direct", 0, BasePrompt)
    /\ UNCHANGED <<pr_args, pr_cache, pr_cache0, pr_readable, pr_chunk_i,
                   pr_total, pr_parts, pr_abandoned, pr_prev>>
    /\ ProcFrame

\* line 216 and what follows the call in its caller up to the next await:
\* lines 116-126 and 68-80 for a chunk, 68-80 for the single call, 308 and
\* 76-80 for the expansion
CallSucceeds(words) ==
    /\ pr_pc = "in_call"
    /\ CASE pr_stage = "single" ->
                /\ AfterProcessing(<<words>>)
                /\ UNCHANGED pr_parts
         [] pr_stage = "chunk" /\ pr_chunk_i < pr_total - 1 ->
                /\ pr_parts' = Append(pr_parts, words)
                /\ pr_pc' = "pause"
                /\ EndInvocation
                /\ UNCHANGED <<pr_cache, pr_stage, pr_result, pr_calls>>
         [] pr_stage = "chunk" /\ pr_chunk_i = pr_total - 1 ->
                /\ pr_parts' = Append(pr_parts, words)
                /\ AfterProcessing(Append(pr_parts, words))
         [] pr_stage = "expand" ->
                /\ SaveAndReturn(Expanded(pr_result, words))
                /\ UNCHANGED pr_parts
         [] pr_stage = "direct" ->
                /\ pr_result' = <<words>>
                /\ pr_pc' = "returned"
                /\ EndInvocation
                /\ UNCHANGED <<pr_cache, pr_stage, pr_parts, pr_calls>>
    /\ UNCHANGED <<pr_run, pr_args, pr_cache0, pr_readable, pr_chunk_i,
                   pr_total, pr_abandoned, pr_prev>>
    /\ ProcFrame

\* lines 121-123 and 99-114: the pause between two chunks, then the call of
\* the next chunk
PauseDone ==
    /\ pr_pc = "pause"
    /\ pr_chunk_i' = pr_chunk_i + 1
    /\ BeginInvocation("chunk", pr_calls,
                       ContextualPrompt(pr_chunk_i + 1, pr_total,
                           ExtractSummary(pr_parts[Len(pr_parts)])))
    /\ UNCHANGED <<pr_run, pr_args, pr_cache, pr_cache0, pr_readable,
                   pr_total, pr_parts, pr_result, pr_abandoned, pr_prev>>
    /\ ProcFrame

\* the decorator after a failed attempt: give up and let the exception
\* leave (lines 82-84 pass it on), or wait for the next attempt
AfterFailure ==
    pr_pc' = IF GiveUp(pr_tries, pr_attempt_elapsed) THEN "raised"
             ELSE "backoff"

\* lines 218-226: the attempt fails; a rate limit error is followed by the
\* 60-second pause before it is raised again
CallFails(kind, seconds) ==
    /\ pr_pc = "in_call"
    /\ kind = "timeout" <=> seconds = call_timeout
    /\ pr_errors' = Append(pr_errors, kind)
    /\ pr_elapsed' = pr_elapsed + seconds
    /\ IF PausesOnError(kind) THEN pr_pc' = "rl_sleep" ELSE AfterFailure
    /\ pr_abandoned' = IF kind = "timeout" THEN pr_abandoned + 1
                       ELSE pr_abandoned
    /\ UNCHANGED <<pr_run, pr_args, pr_cache, pr_cache0, pr_readable,
                   pr_stage, pr_chunk_i, pr_total, pr_parts, pr_result,
                   pr_tries, pr_attempt_elapsed, pr_calls, pr_prompt,
                   pr_paused, pr_prev>>
    /\ ProcFrame

\* lines 222-223: the rate limit pause is over and the error is raised
RateLimitPauseDone ==
    /\ pr_pc = "rl_sleep"
    /\ pr_elapsed' = pr_elapsed + rate_limit_pause
    /\ pr_paused' = pr_paused + rate_limit_pause
    /\ AfterFailure
    /\ UNCHANGED <<pr_run, pr_args, pr_cache, pr_cache0, pr_readable,
                   pr_stage, pr_chunk_i, pr_total, pr_parts, pr_result,
                   pr_tries, pr_attempt_elapsed, pr_errors, pr_calls,
                   pr_prompt, pr_abandoned, pr_prev>>
    /\ ProcFrame

\* lines 185-190: the backoff wait is over and the next attempt is issued
BackoffDone(wait) ==
    /\ pr_pc = "backoff"
    /\ wait \in BackoffWaits(pr_tries, pr_attempt_elapsed)
    /\ pr_pc' = "in_call"
    /\ pr_tries' = pr_tries + 1
    /\ pr_elapsed' = pr_elapsed + wait
    /\ pr_attempt_elapsed' = pr_elapsed + wait
    /\ pr_calls' = pr_calls + 1
    /\ UNCHANGED <<pr_run, pr_args, pr_cache, pr_cache0, pr_readable,
                   pr_stage, pr_chunk_i, pr_total, pr_parts, pr_result,
                   pr_errors, pr_prompt, pr_paused, pr_abandoned, pr_prev>>
    /\ ProcFrame

\* lines 203-214: a call that timed out was left running in its executor
\* thread, which wait_for cannot stop; here it comes to its end
AbandonedCallEnds ==
    /\ pr_abandoned > 0
    /\ pr_abandoned' = pr_abandoned - 1
    /\ UNCHANGED <<pr_pc, pr_run, pr_args, pr_cache, pr_cache0, pr_readable,
                   pr_stage, pr_chunk_i, pr_total, pr_parts, pr_result,
                   pr_tries, pr_elapsed, pr_attempt_elapsed, pr_errors,
                   pr_calls, pr_prompt, pr_paused, pr_prev>>
    /\ ProcFrame

ProcNext ==
    \/ \E payload \in Payloads, use_cache \in BOOLEAN, readable \in BOOLEAN :
            ProcessStart(payload, use_cache, readable)
    \/ \E words \in ResponseWords : CallSucceeds(words)
    \/ PauseDone
    \/ \E kind \in RunErrorKinds, seconds \in RunErrorSeconds :
            CallFails(kind, seconds)
    \/ RateLimitPauseDone
    \/ BackoffDone(0)

SpecProcess == ProcInit /\ [][ProcNext]_vars

RetryNext ==
    \/ RetryStart
    \/ \E words \in ResponseWords : CallSucceeds(words)
    \/ \E kind \in ErrorKinds, seconds \in ErrorSeconds \cup {call_timeout} :
            CallFails(kind, seconds)
    \/ RateLimitPauseDone
    \/ \E wait \in 0 .. 2 ^ (max_tries - 1) : BackoffDone(wait)
    \/ AbandonedCallEnds

SpecRetry == ProcInit /\ [][RetryNext]_vars

\* bot_improved.py lines 773-783, cancel_process: the user cancels the
\* running job; the handler marks the job as failed in active_processes
RequestCancel ==
    /\ pr_pc \in {"in_call", "pause", "backoff", "rl_sleep"}
    /\ cancel_requested # pr_run
    /\ cancel_requested' = pr_run
    /\ UNCHANGED <<pr_pc, pr_run, pr_args, pr_cache, pr_cache0, pr_readable,
                   pr_stage, pr_chunk_i, pr_total, pr_parts, pr_result,
                   pr_tries, pr_elapsed, pr_attempt_elapsed, pr_errors,
                   pr_calls, pr_prompt, pr_paused, pr_abandoned, pr_prev>>
    /\ OthersFrame

\* process_to_20k_words on payloads over max_input_tokens, without the
\* cache, with calls that may time out
WindowNext ==
    \/ \E payload \in {p \in Payloads : IsLong(p)} :
            ProcessStart(payload, FALSE, TRUE)
    \/ \E words \in ResponseWords : CallSucceeds(words)
    \/ PauseDone
    \/ CallFails("timeout", call_timeout)
    \/ BackoffDone(0)
    \/ AbandonedCallEnds
    \/ RequestCancel

SpecWindow == ProcInit /\ [][WindowNext]_vars

\* ------------------------------------------------------------------------
\* DualClaudeProcessor._write_story_from_plan, _process_story_in_chunks,
\* _expand_story, and TextProcessor.process_to_20k_words
\* ------------------------------------------------------------------------

\* the word counts a part written by the text service may have
StoryWords == {3000, 3150}

\* dual_claude_processor.py line 152: word_count < self.target_words * 0.9,
\* in whole numbers (13500 * 0.9 is the float 12150.0 exactly)
StoryNeedsExpansionAtThreshold(story) ==
    10 * WordCount(story) <= 9 * target_words
StoryNeedsExpansion(story) == 10 * WordCount(story) < 9 * target_words

\* dual_claude_processor.py line 262: story + "\n\n" + additions
StoryExpandedAlone(story, additions) == <<additions>>
StoryExpanded(story, additions) == Append(story, additions)

\* text_processor.py lines 101-102: the words asked of a chunk, the
\* remaining words shared out evenly over the chunks still to come
WordsPerChunk(current_length, target_length, chunk_index, total_chunks) ==
    (target_length - current_length) \div (total_chunks - chunk_index)

\* text_processor.py lines 47-55, 93-110, 115: the request of chunk i of
\* TextProcessor carries the adapted prompt and the chunk, nothing of the
\* parts before
AdaptedRequest(i, total, parts) ==
    [stage |-> "part", index |-> i, document_chars |-> 0,
     words_per_chunk |->
        WordsPerChunk(WordCount(parts), text_output_target, i, total)]

\* dual_claude_processor.py lines 168-172: the request of part i of a
\* story; after the first part it carries the last 500 characters of the
\* part before
PartRequest(kind, i, parts) ==
    [stage |-> "part", index |-> i,
     document_chars |->
        IF kind = "story" /\ i > 0
        THEN Min(TextChars(<<parts[Len(parts)]>>), story_tail)
        ELSE 0]

\* dual_claude_processor.py lines 227-242: the expansion request carries
\* the plan and the whole story
StoryExpansionRequest(story) ==
    [stage |-> "expand", index |-> 0, document_chars |-> TextChars(story)]

\* neither loop catches the exception of a call: it leaves the method
OnCallFailureSkips(stage) == IF stage = "part" THEN "pause" ELSE "raised"
OnCallFailure(stage) == "raised"

StoryFrame ==
    UNCHANGED <<speechVars, splitVars, chunkVars, mergeVars, procVars,
                pipeVars, funcVars, botVars>>

StoryInit ==
    /\ SpeechIdle
    /\ SplitIdle
    /\ ChunkIdle
    /\ MergeIdle
    /\ ProcIdle
    /\ PipeIdle
    /\ FuncIdle
    /\ BotIdle
    /\ st_pc = "idle"
    /\ st_kind = "none"
    /\ st_stage = "none"
    /\ st_i = 0
    /\ st_total = 0
    /\ st_parts = << >>
    /\ st_result = None
    /\ st_calls = 0
    /\ st_request = None

\* dual_claude_processor.py lines 143, 160-186 and text_processor.py lines
\* 38-55: the loop is entered and the first part is requested
StoryStart(kind, total) ==
    /\ st_pc \in {"idle", "returned", "raised"}
    /\ kind = "story" => total = story_sections
    /\ kind = "text" => total <= MaxParts
    /\ st_pc' = "in_call"
    /\ st_kind' = kind
    /\ st_stage' = "part"
    /\ st_i' = 0
    /\ st_total' = total
    /\ st_parts' = << >>
    /\ st_result' = None
    /\ st_calls' = 1
    /\ st_request' = IF kind = "text"
                      THEN AdaptedRequest(0, total, << >>)
                      ELSE PartRequest(kind, 0, << >>)
    /\ StoryFrame

\* dual_claude_processor.py lines 188-192, 146-155 and text_processor.py
\* lines 56-68: the part is there; after the last one the parts are merged,
\* and a story that is too short is sent to be expanded
PartSucceeds(words) ==
    /\ st_pc = "in_call"
    /\ st_stage = "part"
    /\ st_parts' = Append(st_parts, words)
    /\ IF st_i < st_total - 1
       THEN /\ st_pc' = "pause"
            /\ UNCHANGED <<st_stage, st_result, st_calls, st_request>>
       ELSE IF st_kind = "story" /\ StoryNeedsExpansion(st_parts')
            THEN /\ st_pc' = "in_call"
                 /\ st_stage' = "expand"
                 /\ st_result' = st_parts'
                 /\ st_calls' = st_calls + 1
                 /\ st_request' = StoryExpansionRequest(st_parts')
            ELSE /\ st_pc' = "returned"
                 /\ st_result' = st_parts'
                 /\ UNCHANGED <<st_stage, st_calls, st_request>>
    /\ UNCHANGED <<st_kind, st_i, st_total>>
    /\ StoryFrame

\* dual_claude_processor.py lines 190-192, 168-186 and text_processor.py
\* lines 58-60, 43-55: the pause is over and the next part is requested
StoryPauseDone ==
    /\ st_pc = "pause"
    /\ st_pc' = "in_call"
    /\ st_i' = st_i + 1
    /\ st_calls' = st_calls + 1
    /\ st_request' = IF st_kind = "text"
                      THEN AdaptedRequest(st_i + 1, st_total, st_parts)
                      ELSE PartRequest(st_kind, st_i + 1, st_parts)
    /\ UNCHANGED <<st_kind, st_stage, st_total, st_parts, st_result>>
    /\ StoryFrame

\* dual_claude_processor.py lines 258-264: the additions are there
ExpansionSucceeds(words) ==
    /\ st_pc = "in_call"
    /\ st_stage = "expand"
    /\ st_pc' = "returned"
    /\ st_result' = StoryExpanded(st_result, words)
    /\ UNCHANGED <<st_kind, st_stage, st_i, st_total, st_parts, st_calls,
                   st_request>>
    /\ StoryFrame

\* dual_claude_processor.py lines 175-186, 245-256 and text_processor.py
\* lines 118-126: the call raises
StoryCallFails ==
    /\ st_pc = "in_call"
    /\ st_pc' = OnCallFailure(st_stage)
    /\ UNCHANGED <<st_kind, st_stage, st_i, st_total, st_parts, st_result,
                   st_calls, st_request>>
    /\ StoryFrame

StoryNext ==
    \/ \E kind \in {"story", "text"}, total \in 1 .. story_sections :
            StoryStart(kind, total)
    \/ \E words \in StoryWords : PartSucceeds(words)
    \/ StoryPauseDone
    \/ \E words \in StoryWords : ExpansionSucceeds(words)
    \/ StoryCallFails

SpecStory == StoryInit /\ [][StoryNext]_vars

\* one document run of either kind: of RobustTextProcessor, or of
\* DualClaudeProcessor or TextProcessor
DocumentInit ==
    \/ ProcInit
    \/ StoryInit

DocumentNext ==
    \/ ProcNext
    \/ StoryNext

SpecDocument == DocumentInit /\ [][DocumentNext]_vars

\* ------------------------------------------------------------------------
\* TextPipeline.process and UpdatedTextPipeline.process: the five stages,
\* the progress callbacks and the except clause
\* ------------------------------------------------------------------------

\* the step types a plan["text_steps"] may hold
StepTypes == {"process_with_claude", "create_story_plan", "generate_speech"}

\* callbacks is None or an empty dict: `if callbacks and ...` is false
NoCallbacks == [registered |-> {}, raising |-> {}]

TerminalEvents == {"pipeline_complete", "pipeline_error"}

\* the body of the try block of TextPipeline.process, statement by
\* statement: calls of _notify, awaited calls of the services, writes of
\* local files, the lookups of a plan step, the assignment of the final
\* status and the return
TextProgram ==
    << <<"notify", "download_start">>,
       <<"call", "youtube.download">>,
       <<"notify", "download_complete">>,
       <<"notify", "transcribe_start">>,
       <<"call", "youtube.extract_audio">>,
       <<"call", "transcriber.transcribe">>,
       <<"notify", "transcribe_complete">>,
       <<"notify", "process_start">>,
       <<"need", {"process_with_claude"}, "claude step not in plan">>,
       <<"call", "text_processor.process_to_20k_words">>,
       <<"notify", "process_complete">>,
       <<"notify", "speech_start">>,
       <<"need", {"generate_speech"}, "speech step not in plan">>,
       <<"call", "speech_generator.generate_for_20k_words">>,
       <<"notify", "speech_complete">>,
       <<"notify", "upload_start">>,
       <<"local", "processed_text.txt">>,
       <<"call", "storage.upload_project">>,
       <<"notify", "upload_complete">>,
       <<"status", "completed">>,
       <<"notify", "pipeline_complete">>,
       <<"return", "results">> >>

\* the body of the try block of UpdatedTextPipeline.process; the awaited
\* process_with_dual_claude is its two awaited calls, of the plan and of
\* the story (dual_claude_processor.py lines 38-49)
UpdatedProgram ==
    << <<"notify", "download_start">>,
       <<"call", "youtube.download">>,
       <<"notify", "download_complete">>,
       <<"notify", "transcribe_start">>,
       <<"call", "youtube.extract_audio">>,
       <<"call", "transcriber.transcribe">>,
       <<"notify", "transcribe_complete">>,
       <<"notify", "process_start">>,
       <<"need", {"create_story_plan", "process_with_claude"},
         "claude step not in plan">>,
       <<"notify", "claude_plan_start">>,
       <<"call", "text_processor._create_story_plan">>,
       <<"call", "text_processor._write_story_from_plan">>,
       <<"notify", "claude_story_start">>,
       <<"notify", "process_complete">>,
       <<"notify", "speech_start">>,
       <<"need", {"generate_speech"}, "speech step not in plan">>,
       <<"call", "speech_generator.generate_for_20k_words">>,
       <<"notify", "speech_complete">>,
       <<"notify", "upload_start">>,
       <<"local", "story_plan.txt, final_story.txt, metadata.json">>,
       <<"call", "storage.upload_project">>,
       <<"notify", "upload_complete">>,
       <<"status", "completed">>,
       <<"notify", "pipeline_complete">>,
       <<"return", "results">> >>

Program(kind) == IF kind = "text" THEN TextProgram ELSE UpdatedProgram

\* the events the try block of a pipeline notifies, and all events
ProgramEvents(kind) ==
    {Program(kind)[i][2] :
        i \in {j \in 1..Len(Program(kind)) : Program(kind)[j][1] = "notify"}}

PipelineEvents ==
    ProgramEvents("text") \cup ProgramEvents("updated") \cup TerminalEvents

\* the callbacks dictionaries of the model: none, one callback per event
\* that works, one per event that raises, callbacks for the terminal events
\* only, callbacks for the stage events only
CallbackChoices ==
    { NoCallbacks,
      [registered |-> PipelineEvents, raising |-> {}],
      [registered |-> PipelineEvents, raising |-> PipelineEvents],
      [registered |-> TerminalEvents, raising |-> {"pipeline_error"}],
      [registered |-> PipelineEvents \ TerminalEvents,
       raising |-> {"process_start", "upload_complete"}] }

\* _notify with an exception of the callback left uncaught
NotifyOutcomeUncaught(callbacks, event) ==
    IF event \in callbacks.registered
    THEN IF event \in callbacks.raising THEN "raised" ELSE "called"
    ELSE "skipped"

\* _notify: the callback of the event is awaited if there is one, and an
\* Exception it raises is logged
NotifyOutcome(callbacks, event) ==
    IF event \in callbacks.registered
    THEN IF event \in callbacks.raising THEN "logged" ELSE "called"
    ELSE "skipped"

\* the except clause reporting the success event
ExceptEventComplete == "pipeline_complete"

\* the event the except clause reports
ExceptEvent == "pipeline_error"

PipeFrame ==
    UNCHANGED <<speechVars, splitVars, chunkVars, mergeVars, procVars,
                storyVars, funcVars, botVars>>

PipeInit ==
    /\ SpeechIdle
    /\ SplitIdle
    /\ ChunkIdle
    /\ MergeIdle
    /\ ProcIdle
    /\ StoryIdle
    /\ PipeIdle
    /\ FuncIdle
    /\ BotIdle

Instruction == Program(pl_kind)[pl_pc[2]]

InTry(op) ==
    /\ pl_pc[1] = "try"
    /\ Instruction[1] = op

\* the next statement of the try block
Advance == pl_pc' = <<"try", pl_pc[2] + 1>>

\* an exception leaves a statement of the try block: `except Exception as e`
Except(e) ==
    /\ pl_pc' = <<"except", pl_pc[2]>>
    /\ pl_error' = e

\* process(project_id, youtube_url, plan, callbacks) up to the try block
PipelineStart(kind, plan, callbacks) ==
    /\ pl_pc[1] = "off"
    /\ pl_pc' = <<"try", 1>>
    /\ pl_kind' = kind
    /\ pl_plan' = plan
    /\ pl_callbacks' = callbacks
    /\ pl_status' = "processing"
    /\ UNCHANGED <<pl_events, pl_logged, pl_calls, pl_error, pl_raised>>
    /\ PipeFrame

\* await self._notify(callbacks, event, message) in the try block
NotifyStep ==
    /\ InTry("notify")
    /\ LET event == Instruction[2]
           outcome == NotifyOutcome(pl_callbacks, event)
       IN  /\ pl_events' = Append(pl_events, event)
           /\ pl_logged' = IF outcome = "logged"
                           THEN pl_logged \cup {event}
                           ELSE pl_logged
           /\ IF outcome = "raised"
              THEN Except(<<"callback_error", event>>)
              ELSE Advance /\ UNCHANGED pl_error
    /\ UNCHANGED <<pl_kind, pl_plan, pl_callbacks, pl_calls, pl_status,
                   pl_raised>>
    /\ PipeFrame

\* an awaited call of a service: it returns or raises
CallStep(ok) ==
    /\ InTry("call")
    /\ pl_calls' = Append(pl_calls, Instruction[2])
    /\ IF ok
       THEN Advance /\ UNCHANGED pl_error
       ELSE Except(<<"stage_error", Instruction[2]>>)
    /\ UNCHANGED <<pl_kind, pl_plan, pl_callbacks, pl_events, pl_logged,
                   pl_status, pl_raised>>
    /\ PipeFrame

\* the result files written under outputs/: open() or write() may raise
LocalStep(ok) ==
    /\ InTry("local")
    /\ IF ok
       THEN Advance /\ UNCHANGED pl_error
       ELSE Except(<<"stage_error", Instruction[2]>>)
    /\ UNCHANGED <<pl_kind, pl_plan, pl_callbacks, pl_events, pl_logged,
                   pl_calls, pl_status, pl_raised>>
    /\ PipeFrame

\* next((step for step in plan["text_steps"] if step["type"] == ...), None)
\* and `if not step: raise ValueError(...)`
NeedStep ==
    /\ InTry("need")
    /\ IF Instruction[2] \cap pl_plan # {}
       THEN Advance /\ UNCHANGED pl_error
       ELSE Except(<<"missing_step", Instruction[3]>>)
    /\ UNCHANGED <<pl_kind, pl_plan, pl_callbacks, pl_events, pl_logged,
                   pl_calls, pl_status, pl_raised>>
    /\ PipeFrame

\* results["status"] = "completed"
SetStatus ==
    /\ InTry("status")
    /\ pl_status' = Instruction[2]
    /\ Advance
    /\ UNCHANGED <<pl_kind, pl_plan, pl_callbacks, pl_events, pl_logged,
                   pl_calls, pl_error, pl_raised>>
    /\ PipeFrame

\* return results
ReturnResults ==
    /\ InTry("return")
    /\ pl_pc' = <<"returned", pl_pc[2]>>
    /\ UNCHANGED <<pl_kind, pl_plan, pl_callbacks, pl_events, pl_logged,
                   pl_calls, pl_status, pl_error, pl_raised>>
    /\ PipeFrame

\* the except clause: status failed, the error recorded, _notify of the
\* error event, and `raise`; an exception leaving _notify here would leave
\* process in place of the caught one
ExceptClause ==
    /\ pl_pc[1] = "except"
    /\ pl_status' = "failed"
    /\ LET outcome == NotifyOutcome(pl_callbacks, ExceptEvent)
       IN  /\ pl_events' = Append(pl_events, ExceptEvent)
           /\ pl_logged' = IF outcome = "logged"
                           THEN pl_logged \cup {ExceptEvent}
                           ELSE pl_logged
           /\ pl_raised' = IF outcome = "raised"
                           THEN <<"callback_error", ExceptEvent>>
                           ELSE pl_error
    /\ pl_pc' = <<"raised", pl_pc[2]>>
    /\ UNCHANGED <<pl_kind, pl_plan, pl_callbacks, pl_calls, pl_error>>
    /\ PipeFrame

PipeNext ==
    \/ \E kind \in {"text", "updated"}, plan \in SUBSET StepTypes,
          callbacks \in CallbackChoices :
            PipelineStart(kind, plan, callbacks)
    \/ NotifyStep
    \/ \E ok \in BOOLEAN : CallStep(ok)
    \/ \E ok \in BOOLEAN : LocalStep(ok)
    \/ NeedStep
    \/ SetStatus
    \/ ReturnResults
    \/ ExceptClause

SpecPipeline == PipeInit /\ [][PipeNext]_vars

\* ------------------------------------------------------------------------
\* TextProcessor._adapt_prompt_for_length called on its own
\* ------------------------------------------------------------------------

FuncFrame ==
    UNCHANGED <<speechVars, splitVars, chunkVars, mergeVars, procVars,
                storyVars, pipeVars, botVars>>

\* the words produced so far a call is made with
AdaptLengths == {0, 3000, 9000, 18000, 21000}

\* the integer division of Python: ZeroDivisionError for a divisor of 0
FloorDiv(a, b) ==
    IF b = 0 THEN <<"ZeroDivisionError">> ELSE <<"value", a \div b>>

\* text_processor.py lines 93-110: the prompt with the words the chunk
\* should have, or the exception of line 102
AdaptPromptForLength(current_length, target_length, chunk_index, total_chunks) ==
    LET remaining_words == target_length - current_length
        words_per_chunk ==
            FloorDiv(remaining_words, total_chunks - chunk_index)
    IN  IF words_per_chunk[1] = "value"
        THEN <<"prompt", words_per_chunk[2]>>
        ELSE words_per_chunk

\* a call with a chunk index from 0 up to the number of chunks
AdaptInit ==
    /\ SpeechIdle
    /\ SplitIdle
    /\ ChunkIdle
    /\ MergeIdle
    /\ ProcIdle
    /\ StoryIdle
    /\ PipeIdle
    /\ BotIdle
    /\ fn_pc = "call"
    /\ fn_name = "_adapt_prompt_for_length"
    /\ \E total_chunks \in 0 .. MaxAdaptChunks :
           fn_args \in [current_length : AdaptLengths,
                        target_length : {text_output_target},
                        chunk_index : 0 .. total_chunks,
                        total_chunks : {total_chunks}]
    /\ fn_result = << >>

AdaptCall ==
    /\ fn_pc = "call"
    /\ fn_name = "_adapt_prompt_for_length"
    /\ fn_result' = AdaptPromptForLength(fn_args.current_length,
                                         fn_args.target_length,
                                         fn_args.chunk_index,
                                         fn_args.total_chunks)
    /\ fn_pc' = "done"
    /\ UNCHANGED <<fn_name, fn_args>>
    /\ FuncFrame

AdaptNext == AdaptCall

SpecAdapt == AdaptInit /\ [][AdaptNext]_vars

\* ------------------------------------------------------------------------
\* RobustTextProcessor._extract_summary called on its own
\* ------------------------------------------------------------------------

\* the characters of the bounded processed texts: a letter, the full stop
\* and the space
SummaryAlphabet == {"a", ".", " "}

SummaryTexts ==
    UNION {[1 .. n -> SummaryAlphabet] : n \in 0 .. MaxSummaryText}

\* the least position of character c in s, 0 when there is none
RECURSIVE FindChar(_, _, _)
FindChar(s, c, from) ==
    IF from > Len(s) THEN 0
    ELSE IF s[from] = c THEN from
    ELSE FindChar(s, c, from + 1)

\* s.split(c) of Python for a separator of one character
RECURSIVE SplitChar(_, _)
SplitChar(s, c) ==
    LET at == FindChar(s, c, 1) IN
    IF at = 0 THEN <<s>>
    ELSE <<SubSeq(s, 1, at - 1)>> \o SplitChar(Drop(s, at + 1), c)

\* '. '.join(pieces) of Python
RECURSIVE JoinSentences(_)
JoinSentences(pieces) ==
    IF pieces = << >> THEN << >>
    ELSE IF Len(pieces) = 1 THEN pieces[1]
    ELSE pieces[1] \o <<".", " ">> \o JoinSentences(Tail(pieces))

\* robust_text_processor.py line 274:
\* sentences[:2] + sentences[-2:] if len(sentences) > 4 else sentences
ImportantSentences(sentences) ==
    IF Len(sentences) > 4
    THEN SubSeq(sentences, 1, 2)
            \o SubSeq(sentences, Len(sentences) - 1, Len(sentences))
    ELSE sentences

\* lines 276-280: one sentence of the loop; current_length is the sum of
\* the lengths of the sentences taken
SummaryStep(st, raw_sentence, max_length) ==
    LET sentence == Strip(raw_sentence) IN
    IF sentence # << >> /\ st.current_length + Len(sentence) < max_length
    THEN [summary |-> Append(st.summary, sentence),
          current_length |-> st.current_length + Len(sentence)]
    ELSE st

RECURSIVE SummaryLoop(_, _, _)
SummaryLoop(st, sentences, max_length) ==
    IF sentences = << >> THEN st
    ELSE SummaryLoop(SummaryStep(st, Head(sentences), max_length),
                     Tail(sentences), max_length)

\* lines 266-282
ExtractSummaryText(text, max_length) ==
    LET sentences == SplitChar(text, ".")
        st == SummaryLoop([summary |-> << >>, current_length |-> 0],
                          ImportantSentences(sentences), max_length)
    IN  JoinSentences(st.summary) \o <<".">>

SummaryInit ==
    /\ SpeechIdle
    /\ SplitIdle
    /\ ChunkIdle
    /\ MergeIdle
    /\ ProcIdle
    /\ StoryIdle
    /\ PipeIdle
    /\ BotIdle
    /\ fn_pc = "call"
    /\ fn_name = "_extract_summary"
    /\ fn_args \in SummaryTexts
    /\ fn_result = << >>

\* line 119: context_summary = self._extract_summary(processed)
SummaryCall ==
    /\ fn_pc = "call"
    /\ fn_name = "_extract_summary"
    /\ fn_result' = ExtractSummaryText(fn_args, summary_max_length)
    /\ fn_pc' = "done"
    /\ UNCHANGED <<fn_name, fn_args>>
    /\ FuncFrame

SummaryNext == SummaryCall

SpecSummary == SummaryInit /\ [][SummaryNext]_vars

\* ------------------------------------------------------------------------
\* bot_improved: select_plan_callback, simulate_processing, cancel_process
\* ------------------------------------------------------------------------

\* bot_improved.py lines 689-695: the stages of simulate_processing
BotStages ==
    <<"downloading", "transcribing", "processing", "generating_speech",
      "uploading">>

BotFrame ==
    UNCHANGED <<speechVars, splitVars, chunkVars, mergeVars, procVars,
                storyVars, pipeVars, funcVars>>

BotInit ==
    /\ SpeechIdle
    /\ SplitIdle
    /\ ChunkIdle
    /\ MergeIdle
    /\ ProcIdle
    /\ StoryIdle
    /\ PipeIdle
    /\ FuncIdle
    /\ BotIdle

\* lines 653-681: the project is entered into active_processes with status
\* waiting and asyncio.create_task starts its simulate_processing
SelectPlan(p) ==
    /\ bot_pc[p] = "idle"
    /\ bot_pc' = [bot_pc EXCEPT ![p] = "loop"]
    /\ bot_status' = [bot_status EXCEPT ![p] = "waiting"]
    /\ bot_stages' = [bot_stages EXCEPT
                         ![p] = [i \in DOMAIN BotStages |-> "waiting"]]
    /\ UNCHANGED <<bot_stage, bot_cancelled, bot_sent>>
    /\ BotFrame

\* lines 697-705: the stage is entered, up to the await of the sleep; the
\* project is in active_processes from SelectPlan on
StageBegin(p) ==
    /\ bot_pc[p] = "loop"
    /\ bot_stage[p] < Len(BotStages)
    /\ bot_status' = [bot_status EXCEPT ![p] = BotStages[bot_stage[p] + 1]]
    /\ bot_stages' = [bot_stages EXCEPT
                         ![p][bot_stage[p] + 1] = "processing"]
    /\ bot_pc' = [bot_pc EXCEPT ![p] = "sleep"]
    /\ UNCHANGED <<bot_stage, bot_cancelled, bot_sent>>
    /\ BotFrame

\* lines 705-709: the sleep is over and the stage is marked completed
StageEnd(p) ==
    /\ bot_pc[p] = "sleep"
    /\ bot_stages' = [bot_stages EXCEPT
                         ![p][bot_stage[p] + 1] = "completed"]
    /\ bot_stage' = [bot_stage EXCEPT ![p] = @ + 1]
    /\ bot_pc' = [bot_pc EXCEPT ![p] = "loop"]
    /\ UNCHANGED <<bot_status, bot_cancelled, bot_sent>>
    /\ BotFrame

\* lines 712-715: after the loop the status is set to completed, up to the
\* await of bot.send_message
FinalStatus(p) ==
    /\ bot_pc[p] = "loop"
    /\ bot_stage[p] = Len(BotStages)
    /\ bot_status' = [bot_status EXCEPT ![p] = "completed"]
    /\ bot_pc' = [bot_pc EXCEPT ![p] = "send"]
    /\ UNCHANGED <<bot_stage, bot_stages, bot_cancelled, bot_sent>>
    /\ BotFrame

\* lines 718-727: the completion message is sent, or send_message raises
\* and the bare except passes
SendCompletion(p, ok) ==
    /\ bot_pc[p] = "send"
    /\ bot_sent' = [bot_sent EXCEPT ![p] = ok]
    /\ bot_pc' = [bot_pc EXCEPT ![p] = "done"]
    /\ UNCHANGED <<bot_stage, bot_status, bot_stages, bot_cancelled>>
    /\ BotFrame

\* lines 773-783: cancel_process for a project of active_processes; it runs
\* between two awaits of the task, whenever the user presses the button
CancelProcess(p) ==
    /\ bot_pc[p] # "idle"
    /\ bot_status' = [bot_status EXCEPT ![p] = "failed"]
    /\ bot_cancelled' = [bot_cancelled EXCEPT ![p] = TRUE]
    /\ UNCHANGED <<bot_pc, bot_stage, bot_stages, bot_sent>>
    /\ BotFrame

BotNext ==
    \E p \in Projects :
        \/ SelectPlan(p)
        \/ StageBegin(p)
        \/ StageEnd(p)
        \/ FinalStatus(p)
        \/ \E ok \in BOOLEAN : SendCompletion(p, ok)
        \/ CancelProcess(p)

SpecBot == BotInit /\ [][BotNext]_vars

\* ------------------------------------------------------------------------
\* Properties of generate_for_20k_words (SpecSpeech)
\* ------------------------------------------------------------------------

\* the segment indices named by a list of artifacts, in order
ArtifactIndices(files) == [j \in DOMAIN files |-> files[j]]

StrictlyIncreasing(seq) ==
    \A a, b \in DOMAIN seq : a < b => seq[a] < seq[b]

\* C1: once the operation has returned, every segment whose first attempt
\* and retry both failed is a gap at its own index: neither the result list
\* nor the manifest holds an artifact at the index of that segment.
C1_FailedSegmentIsGap ==
    sp_pc = "done" =>
        \A k \in perm_failed :
            /\ \A j \in DOMAIN manifest : manifest[j][1] # k
            /\ Len(audio_files) <= k

\* C2: on every manifest line the index equals the original segment index
\* of the artifact the line names.
C2_ManifestIndexIsSegment ==
    \A j \in DOMAIN manifest : manifest[j][1] = manifest[j][2]

\* C3: audio_files and the manifest list the artifacts in strictly
\* increasing original segment order, hence without duplicates, whatever
\* the completion order of the calls and whichever calls were retried.
C3_ArtifactsInSegmentOrder ==
    /\ StrictlyIncreasing(ArtifactIndices(audio_files))
    /\ StrictlyIncreasing([j \in DOMAIN manifest |-> manifest[j][2]])
    /\ StrictlyIncreasing([j \in DOMAIN manifest |-> manifest[j][1]])
    /\ sp_pc = "done" => Len(manifest) = Len(audio_files)

\* two groups returned, calls completed out of index order, some segment
\* needed its retry and some retried segment made it into the result
C3_Witness ==
    /\ sp_pc = "done"
    /\ out_of_order
    /\ Len(manifest) > parallel_limit
    /\ \E k \in first_failed : k \notin perm_failed
    /\ perm_failed # {}

\* C4: at most parallel_limit calls are in flight, all calls in flight
\* belong to one group, a retry is in flight alone, and nothing is in
\* flight outside the gather and the retry.
C4_InFlightBounded ==
    /\ Cardinality(in_flight) <= parallel_limit
    /\ \A a, b \in in_flight : a \div parallel_limit = b \div parallel_limit
    /\ sp_pc = "retry" => in_flight = {batch_start + res_i}
    /\ sp_pc \notin {"gather", "retry"} => in_flight = {}

\* a full group of a multi-group run is in flight
C4_Witness ==
    /\ num_chunks > parallel_limit
    /\ Cardinality(in_flight) = parallel_limit

\* C5: the operation never raises; a failed call leaves every sibling of
\* its group to complete with its own outcome; whenever the operation has
\* not returned it can still take a step; and when it returns, every
\* segment was attempted and the manifest holds one line for every segment
\* that did not fail permanently.
C5_FailuresAreIsolated ==
    /\ sp_pc # "raised"
    /\ sp_pc \in {"results", "retry"} =>
          \A k \in BatchIndices : batch_results[k] \in {"ok", "exc"}
    /\ sp_pc # "done" => ENABLED SpeechNext
    /\ sp_pc = "done" =>
          /\ \A k \in Segments : calls[k] >= 1
          /\ Len(manifest) = num_chunks - Cardinality(perm_failed)

\* every segment of a two-group run failed twice and the operation returned
C5_Witness ==
    /\ sp_pc = "done"
    /\ num_chunks > parallel_limit
    /\ perm_failed = Segments
    /\ manifest = << >>

\* C6: a segment is called a second time only if its gathered call failed,
\* only once its whole group has completed, and alone; no segment is called
\* a third time; when the operation returns every segment was called once
\* if its first call succeeded and twice if it failed.
C6_RetriedExactlyOnce ==
    /\ \A k \in Segments :
          /\ calls[k] <= 2
          /\ calls[k] = 2 => k \in first_failed
    /\ sp_pc = "retry" =>
          /\ in_flight = {batch_start + res_i}
          /\ \A k \in BatchIndices : batch_results[k] # "pending"
    /\ sp_pc = "done" =>
          \A k \in Segments :
              calls[k] = IF k \in first_failed THEN 2 ELSE 1

\* a run returned in which some segment was called once and another twice
C6_Witness ==
    /\ sp_pc = "done"
    /\ \E k \in Segments : calls[k] = 1
    /\ \E k \in Segments : calls[k] = 2

\* ------------------------------------------------------------------------
\* Properties of _split_text_for_speech (SpecSplit)
\* ------------------------------------------------------------------------

\* C7: every returned segment is at most max_chunk_size characters long.
C7_SegmentsWithinLimit ==
    split_pc = "done" =>
        \A j \in DOMAIN split_chunks : Len(split_chunks[j]) <= max_chunk_size

\* ------------------------------------------------------------------------
\* Properties of _create_overlapping_chunks (SpecChunks)
\* ------------------------------------------------------------------------

\* C8: the ranges of the chunks cover the text without gap: the first chunk
\* starts at 0, every next chunk starts at or before the end of the chunk
\* before it, every chunk holds the characters of its range, and when the
\* list is returned the last range reaches len(text).
C8_RangesCoverText ==
    /\ ck_chunks # << >> => ck_chunks[1].start = 0
    /\ \A j \in 1 .. (Len(ck_chunks) - 1) :
          ck_chunks[j + 1].start <= ck_chunks[j].end
    /\ \A j \in DOMAIN ck_chunks :
          /\ ck_chunks[j].start < ck_chunks[j].end
          /\ ck_chunks[j].chunk =
                Slice(ck_text, ck_chunks[j].start, ck_chunks[j].end)
    /\ (ck_pc = "done" /\ ck_text # << >>) =>
          /\ ck_chunks # << >>
          /\ ck_chunks[Len(ck_chunks)].end >= Len(ck_text)

\* a text longer than the chunk size was returned as at least three
\* chunks, one of them extended forward to a sentence terminator inside the
\* text and one starting inside the chunk before it
C8_Witness ==
    /\ ck_pc = "done"
    /\ Len(ck_text) > chunk_size
    /\ Len(ck_chunks) >= 3
    /\ \E j \in DOMAIN ck_chunks :
          /\ ck_chunks[j].end > ck_chunks[j].start + chunk_size
          /\ ck_chunks[j].end <= Len(ck_text)
    /\ \E j \in 1 .. (Len(ck_chunks) - 1) :
          ck_chunks[j + 1].start < ck_chunks[j].end

\* C9: the start offset of every new chunk is strictly greater than the
\* start offset of the chunk before it (so the loop terminates).
C9_StartsStrictlyIncrease ==
    \A j \in 1 .. (Len(ck_chunks) - 1) :
        ck_chunks[j + 1].start > ck_chunks[j].start

\* C10: for a non-empty text shorter than the chunk size the chunker never
\* holds more than one chunk, and it returns exactly one chunk, which is
\* the whole text.
C10_ShortTextOneChunk ==
    (0 < Len(ck_text) /\ Len(ck_text) < chunk_size) =>
        /\ Len(ck_chunks) <= 1
        /\ ck_pc = "done" =>
              /\ Len(ck_chunks) = 1
              /\ ck_chunks[1].chunk = ck_text

\* the look-ahead spent on a chunk: how far its end lies beyond
\* start + chunk_size
LookAheadUsed(c) == c.end - (c.start + chunk_size)

\* C11: in a returned chunk list no chunk records an end beyond len(text)
\* and the last chunk records the end len(text).
C11_LastEndIsTextLength ==
    (ck_pc = "done" /\ ck_chunks # << >>) =>
        /\ \A j \in DOMAIN ck_chunks : ck_chunks[j].end <= Len(ck_text)
        /\ ck_chunks[Len(ck_chunks)].end = Len(ck_text)

\* C12: in a returned chunk list the end of a chunk minus the start of the
\* next chunk is at least 0 and at most the overlap size plus the
\* look-ahead spent on reaching the chunk's sentence terminator.
C12_OverlapBounded ==
    ck_pc = "done" =>
        \A j \in 1 .. (Len(ck_chunks) - 1) :
            LET overlap == ck_chunks[j].end - ck_chunks[j + 1].start IN
            /\ overlap >= 0
            /\ overlap <= overlap_size + LookAheadUsed(ck_chunks[j])

\* ------------------------------------------------------------------------
\* Properties of the chunk mergers (SpecMerge)
\* ------------------------------------------------------------------------

\* the length of the longest text that is both the tail of a and the head
\* of b, 0 when they share none
LongestShared(a, b) ==
    LET shared == {n \in 1 .. Min(Len(a), Len(b)) : LastN(a, n) = FirstN(b, n)}
    IN  IF shared = {} THEN 0
        ELSE CHOOSE n \in shared : \A m \in shared : m <= n

\* t ends with a sentence terminator, trailing whitespace aside
EndsSentence(t) ==
    \E n \in 1 .. Len(t) :
        /\ t[n] \in Terminators
        /\ \A m \in (n + 1) .. Len(t) : t[m] \in Whitespace

\* t closed by a full stop when it does not end a sentence
WithPeriod(t) == IF EndsSentence(t) THEN t ELSE t \o <<".">>

\* an iteration of the merge loop has run: it merged MergedChunk into
\* mg_prev and left mg_merged
MergeStepDone == mg_pc \in {"loop", "done"} /\ mg_i >= 2
MergedChunk == mg_chunks[mg_i]

\* C13: when the robust merger is given two chunk outputs and the tail of
\* the first equals the head of the second, the shared text is removed from
\* the second, so the result holds it once.
C13_SharedTextOnce ==
    (/\ mg_pc = "done"
     /\ mg_kind = "robust"
     /\ Len(mg_chunks) = 2
     /\ LongestShared(mg_chunks[1], mg_chunks[2]) > 0) =>
        mg_result =
            WithPeriod(mg_chunks[1]) \o <<NL, NL>> \o
            LStrip(Drop(mg_chunks[2],
                        LongestShared(mg_chunks[1], mg_chunks[2]) + 1))

\* C14: every iteration of every merger appends the merged chunk, after a
\* seam, to the text merged so far; what it leaves out of the chunk is a
\* head of the chunk that is whitespace or repeats the end of the text
\* merged so far.
C14_ChunkContributes ==
    MergeStepDone =>
        \E cut \in 0 .. Len(MergedChunk) :
            LET removed == Strip(FirstN(MergedChunk, cut))
                kept == Drop(MergedChunk, cut + 1)
            IN  /\ removed = << >> \/ EndsWith(RStrip(mg_prev), removed)
                /\ \E seam \in {<<NL, NL>>, <<".", NL, NL>>},
                      piece \in {kept, LStrip(kept)} :
                        mg_merged = mg_prev \o seam \o piece

\* C14 for the mergers of RobustTextProcessor and TextProcessor alone
C14_RobustAndTextContribute ==
    mg_kind \in {"robust", "text"} => C14_ChunkContributes

InRun == pr_args # None

\* cache_key of the current run
RunKey == GetCacheKey(pr_args.payload)

\* the lookup of the current run hit: use_cache, and the file of its key
\* was there and could be read
LookupHit ==
    /\ InRun
    /\ pr_args.use_cache
    /\ pr_readable
    /\ pr_cache0[RunKey] # None

\* C16: with use_cache the lookup comes before any call to the text service:
\* a run whose lookup hit has returned the cached text, has made no call
\* (no chunk call, no expansion call, no retry) and has not touched the
\* cache.
C16_HitMakesNoCall ==
    LookupHit =>
        /\ pr_pc = "returned"
        /\ pr_calls = 0
        /\ pr_tries = 0
        /\ pr_result = pr_cache0[RunKey]
        /\ pr_cache = pr_cache0

\* a second run returned, without a call, the text that the first run had
\* obtained from the text service and stored
C16_Witness ==
    /\ LookupHit
    /\ pr_run = 2
    /\ pr_pc = "returned"
    /\ pr_calls = 0
    /\ pr_prev.outcome = "returned"
    /\ pr_prev.calls > 0
    /\ pr_prev.payload = pr_args.payload
    /\ pr_result = pr_prev.result

\* C17: two runs on the same (payload, prompt, model) with use_cache make
\* one call to the text service between them and return the same text.
C17_OneCallForTwoRuns ==
    (/\ InRun
     /\ pr_pc = "returned"
     /\ pr_prev # None
     /\ pr_prev.outcome = "returned"
     /\ pr_prev.use_cache
     /\ pr_args.use_cache
     /\ pr_prev.payload = pr_args.payload) =>
        /\ pr_prev.calls + pr_calls = 1
        /\ pr_prev.result = pr_result

\* the latest response the current run got from the text service
LatestResponse ==
    IF pr_result # None THEN pr_result[Len(pr_result)]
    ELSE pr_parts[Len(pr_parts)]

\* the current run got a response from the text service
GotResponse ==
    /\ InRun
    /\ pr_calls > 0
    /\ pr_result # None \/ pr_parts # << >>

\* C18: the cache is write-through: once a run with use_cache has a
\* response of the text service, the entry of its key holds that response;
\* and a run that ended with an error left the cache as it found it.
C18_WriteThrough ==
    /\ (GotResponse /\ pr_args.use_cache) =>
            /\ pr_cache[RunKey] # None
            /\ pr_cache[RunKey][Len(pr_cache[RunKey])] = LatestResponse
    /\ (InRun /\ pr_pc = "raised") => pr_cache = pr_cache0

\* C18, second half alone: a run that ended with an error left the cache as
\* it found it
C18_ErrorLeavesCache ==
    (InRun /\ pr_pc = "raised") => pr_cache = pr_cache0

\* every attempt of the decorated call made so far failed with a transient
\* error
AllTransient ==
    /\ pr_stage = "direct"
    /\ pr_pc \in {"rl_sleep", "backoff", "raised"} \/ pr_errors # << >>
    /\ \A j \in DOMAIN pr_errors : pr_errors[j] \in TransientKinds

\* C19: when every attempt fails with a transient error,
\* _process_single_with_retry fails after exactly 3 attempts: the third
\* failure is raised, no fourth attempt is made and no earlier failure is
\* raised.
C19_ThreeAttemptsThenFail ==
    AllTransient =>
        /\ pr_tries <= max_tries
        /\ pr_calls = pr_tries
        /\ pr_pc = "raised" =>
                Len(pr_errors) = max_tries /\ pr_calls = max_tries
        /\ Len(pr_errors) = max_tries => pr_pc \in {"rl_sleep", "raised"}

\* a timeout, a rate limit error and a 5xx error in turn, the slowest way,
\* and the third was raised
C19_Witness ==
    /\ pr_stage = "direct"
    /\ pr_pc = "raised"
    /\ pr_errors = <<"rate_limit", "timeout", "server_error">>
    /\ pr_calls = 3
    /\ pr_elapsed >= max_time

\* C20: a fatal error (authentication, validation) leaves
\* _process_single_with_retry after one attempt: no retry and no backoff
\* wait follow it.
C20_FatalNotRetried ==
    (/\ pr_stage = "direct"
     /\ \E j \in DOMAIN pr_errors : pr_errors[j] = "fatal") =>
        /\ Len(pr_errors) = 1
        /\ pr_calls = 1
        /\ pr_pc = "raised"

\* ------------------------------------------------------------------------
\* Properties of _process_with_sliding_window (SpecWindow) and of the rate
\* limit pause (SpecRetry)
\* ------------------------------------------------------------------------

\* requests to the text service that have not come to their end: the one
\* awaited and those abandoned after a timeout
InFlight == pr_abandoned + (IF pr_pc = "in_call" THEN 1 ELSE 0)

\* the call of a chunk is awaited
ChunkCallAwaited == InRun /\ pr_stage = "chunk" /\ pr_pc = "in_call"

\* the chunk calls come in sequence order and each prompt carries the
\* summary of the output before it: the call of chunk i is issued when
\* exactly the outputs of chunks 0..i-1 are there, its prompt names
\* position i and carries the summary of output i-1, none for chunk 0
ChunkOrderAndContext ==
    /\ Len(pr_parts) = pr_chunk_i
    /\ pr_chunk_i < pr_total
    /\ pr_prompt.chunk_index = pr_chunk_i
    /\ pr_prompt.context = IF pr_chunk_i = 0 THEN None
                           ELSE ExtractSummary(pr_parts[pr_chunk_i])

\* C24 as claimed: the chunks are called in sequence order with at most
\* one request to the text service in flight, and each prompt carries the
\* summary of the output before it (none for chunk 0).
C24_OneCallInFlightInOrder ==
    /\ InRun => InFlight <= 1
    /\ ChunkCallAwaited => ChunkOrderAndContext

\* C24 as amended: the chunks are called in sequence order with at most
\* one call awaited, and each prompt carries the summary of the output
\* before it (none for chunk 0); requests abandoned after a timeout may
\* still be running beside the awaited one.
C24_OneCallAwaitedInOrder ==
    /\ ChunkCallAwaited => ChunkOrderAndContext
    /\ (InRun /\ pr_pc # "in_call") => InFlight = pr_abandoned
    /\ (InRun /\ pr_stage = "chunk" /\ pr_pc = "pause") =>
            Len(pr_parts) = pr_chunk_i + 1

\* the call of the second chunk is awaited with the summary of the first
\* output in its prompt, while a request of the first chunk that timed out
\* is still running
C24_Witness ==
    /\ ChunkCallAwaited
    /\ pr_chunk_i = 1
    /\ Len(pr_parts) = 1
    /\ pr_prompt.context = ExtractSummary(pr_parts[1])
    /\ pr_abandoned = 1
    /\ InFlight = 2

\* C29: once the user has asked to cancel the running job, no further
\* chunk call is started: the loop does not go on to the next chunk.
C29_NoChunkAfterCancel ==
    [][(cancel_requested = pr_run /\ pr_stage = "chunk")
            => pr_chunk_i' <= pr_chunk_i]_vars

\* the number of rate limit errors among the given errors
RECURSIVE RateLimitCount(_)
RateLimitCount(errors) ==
    IF errors = << >> THEN 0
    ELSE (IF Head(errors) = "rate_limit" THEN 1 ELSE 0)
         + RateLimitCount(Tail(errors))

\* C30: each rate limit failure of _process_single_with_retry is followed
\* by one pause of 60 seconds, over before the backoff wait and the next
\* attempt begin; a timeout or another API error is followed by no pause.
C30_RateLimitPause ==
    pr_stage = "direct" =>
        /\ pr_pc = "rl_sleep" =>
                /\ pr_errors # << >>
                /\ pr_errors[Len(pr_errors)] = "rate_limit"
        /\ pr_paused = rate_limit_pause *
                (RateLimitCount(pr_errors)
                 - (IF pr_pc = "rl_sleep" THEN 1 ELSE 0))

\* the second attempt is awaited after a rate limit failure, the pause and
\* a backoff wait of one second
C30_Witness ==
    /\ pr_stage = "direct"
    /\ pr_pc = "in_call"
    /\ pr_tries = 2
    /\ pr_errors = <<"rate_limit">>
    /\ pr_paused = rate_limit_pause
    /\ pr_attempt_elapsed = 1 + rate_limit_pause + 1

\* ------------------------------------------------------------------------
\* Properties of the document runs (SpecDocument)
\* ------------------------------------------------------------------------

\* a run of RobustTextProcessor has called the text service
RobustRun == InRun /\ pr_calls > 0

\* the merged document of the run of RobustTextProcessor, known while the
\* loop is over and no expansion has come back
RobustDocumentReady ==
    /\ RobustRun
    /\ \/ pr_stage = "expand" /\ pr_pc # "returned"
       \/ pr_stage \in {"single", "chunk"} /\ pr_pc = "returned"

\* the same for DualClaudeProcessor
StoryDocumentReady ==
    /\ st_kind = "story"
    /\ Len(st_parts) = st_total
    /\ st_pc \in {"in_call", "returned", "raised"}

\* C21: the expansion runs iff the word count of the merged document is
\* strictly below nine tenths of the target (20000 words for
\* RobustTextProcessor, 13500 for DualClaudeProcessor); a document at the
\* threshold or above it is returned without an expansion call.
C21_ExpansionBelowThreshold ==
    /\ RobustDocumentReady =>
            (pr_stage = "expand" <=>
                10 * WordCount(pr_result) < 9 * output_target)
    /\ StoryDocumentReady =>
            (st_stage = "expand" <=>
                10 * WordCount(st_parts) < 9 * target_words)

\* a document of exactly 18000 words was returned as it was, after one call
C21_Witness ==
    /\ RobustDocumentReady
    /\ pr_pc = "returned"
    /\ pr_stage = "single"
    /\ pr_calls = 1
    /\ WordCount(pr_result) = expand_below

\* the text returned by an expansion step: the document as it was, then
\* one response
AppendsOneResponse(before, after, words) ==
    \E w \in words : after = before \o <<w>>

\* C22: a run makes at most one expansion pass: the expansion is one more
\* generation call, the text it returns is appended after the unchanged
\* document, and the run ends there, whether or not the target is reached.
C22_OneExpansionPass ==
    [][/\ (pr_stage = "expand" /\ pr_run' = pr_run) =>
            /\ pr_stage' = "expand"
            /\ pr_result' # pr_result =>
                    /\ pr_pc' = "returned"
                    /\ AppendsOneResponse(pr_result, pr_result',
                                          ResponseWords)
       /\ (st_stage = "expand" /\ st_stage' = "expand") =>
            /\ st_calls' = st_calls
            /\ st_pc = "in_call"
            /\ st_result' # st_result =>
                    /\ st_pc' = "returned"
                    /\ st_result = st_parts
                    /\ AppendsOneResponse(st_parts, st_result', StoryWords)
       /\ (st_stage' = "expand" /\ st_stage # "expand") =>
            /\ st_stage = "part"
            /\ st_calls' = st_calls + 1
       /\ (pr_stage' = "expand" /\ pr_stage # "expand") =>
            /\ pr_stage \in {"single", "chunk"}
            /\ pr_calls' = pr_calls + 1]_vars

\* a run of RobustTextProcessor returned a document of 9000 words with one
\* expansion of 9000 words after it, below the target and not expanded
\* again
C22_Witness ==
    /\ RobustRun
    /\ pr_pc = "returned"
    /\ pr_stage = "expand"
    /\ pr_calls = 2
    /\ pr_result = <<9000, 9000>>
    /\ WordCount(pr_result) < output_target

\* C23: the expansion request carries a bounded trailing slice of the
\* document, never the whole of a long document: at most the 3000
\* characters of RobustTextProcessor, for both processors.
C23_ExpansionContextBounded ==
    /\ (InRun /\ pr_stage = "expand" /\ pr_pc = "in_call") =>
            pr_prompt.document_chars <= expand_context
    /\ (st_stage = "expand" /\ st_pc = "in_call") =>
            st_request.document_chars <= expand_context

\* C23 for RobustTextProcessor alone
C23_RobustContextBounded ==
    (InRun /\ pr_stage = "expand" /\ pr_pc = "in_call") =>
        /\ pr_prompt.document_chars <= expand_context
        /\ pr_prompt.document_chars < TextChars(pr_result)

\* C25: when the call of a chunk fails for good the run fails there: the
\* loop stops at that chunk, no merged text is returned, no expansion is
\* attempted and the cache is left as it was; until then every chunk
\* before the current one has its output.
C25_ChunkFailureAborts ==
    /\ (InRun /\ pr_pc = "raised" /\ pr_stage = "chunk") =>
            /\ Len(pr_parts) = pr_chunk_i
            /\ pr_result = None
            /\ pr_cache = pr_cache0
    /\ (InRun /\ pr_stage = "chunk" /\ pr_pc = "pause") =>
            Len(pr_parts) = pr_chunk_i + 1
    /\ (st_kind = "text" /\ st_pc = "raised") =>
            /\ Len(st_parts) = st_i
            /\ st_result = None
            /\ st_stage = "part"
    /\ (st_kind = "text" /\ st_pc = "pause") => Len(st_parts) = st_i + 1
    /\ (st_kind = "text" /\ st_pc = "returned") => Len(st_parts) = st_total

\* the call of the second chunk of a run with use_cache failed three
\* times: the run has raised with one output, no text and the cache as it
\* was
C25_Witness ==
    /\ InRun
    /\ pr_args.use_cache
    /\ pr_pc = "raised"
    /\ pr_stage = "chunk"
    /\ pr_chunk_i = 1
    /\ Len(pr_parts) = 1
    /\ pr_tries = max_tries
    /\ pr_result = None
    /\ pr_cache = pr_cache0

\* ------------------------------------------------------------------------
\* Properties of the pipelines (SpecPipeline)
\* ------------------------------------------------------------------------

\* process has returned or raised
PipelineOver == pl_pc[1] \in {"returned", "raised"}

\* the second fields of the statements of one sort among the first n
\* statements of the try block, in order
FieldsUpTo(kind, op, n) ==
    LET sel == SelectSeq(SubSeq(Program(kind), 1, n),
                         LAMBDA ins : ins[1] = op)
    IN  [i \in 1..Len(sel) |-> sel[i][2]]

\* C26: a run that ends with the missing-step error has made no external
\* call: no download, transcription, text-generation or speech call.
C26_MissingStepBeforeAnyCall ==
    (/\ pl_pc[1] = "raised"
     /\ pl_raised # None
     /\ pl_raised[1] = "missing_step")
        => pl_calls = << >>

\* C27: a callback that raises changes nothing but the log: no exception of
\* a callback is ever caught by the except clause or raised by process,
\* every _notify is followed by the next statement, and the way a run ends
\* (returned with status completed after every call, or raised with status
\* failed and the error of the statement that failed, after the calls up
\* to that statement) is fixed by the plan and the failing statement,
\* whatever the callbacks are; an event without a callback logs nothing.
C27_CallbackFailureIgnored ==
    /\ pl_logged \subseteq pl_callbacks.registered
    /\ pl_error # None => pl_error[1] \in {"stage_error", "missing_step"}
    /\ pl_pc[1] = "try" =>
        /\ pl_events = FieldsUpTo(pl_kind, "notify", pl_pc[2] - 1)
        /\ pl_calls = FieldsUpTo(pl_kind, "call", pl_pc[2] - 1)
        /\ pl_error = None
    /\ pl_pc[1] = "returned" =>
        /\ pl_status = "completed"
        /\ pl_raised = None
        /\ pl_error = None
        /\ pl_calls = FieldsUpTo(pl_kind, "call", Len(Program(pl_kind)))
        /\ pl_events = FieldsUpTo(pl_kind, "notify", Len(Program(pl_kind)))
    /\ pl_pc[1] = "raised" =>
        /\ pl_status = "failed"
        /\ pl_raised = pl_error
        /\ pl_error # None
        /\ pl_calls = FieldsUpTo(pl_kind, "call", pl_pc[2])
        /\ pl_events = Append(FieldsUpTo(pl_kind, "notify", pl_pc[2]),
                              "pipeline_error")

\* a run has returned although callbacks raised on the way, among them the
\* one of process_start
C27_Witness ==
    /\ pl_pc[1] = "returned"
    /\ "process_start" \in pl_logged
    /\ "upload_complete" \in pl_logged
    /\ pl_status = "completed"

\* the terminal events _notify was called with, in order
TerminalReports == SelectSeq(pl_events, LAMBDA e : e \in TerminalEvents)

\* C28: a run reports one terminal event, as its last event: a run that
\* returned reports pipeline_complete, with status completed after all the
\* calls of the five stages; a run that raised reports pipeline_error, with
\* status failed, and raises the exception of the failed statement;
\* pipeline_complete is never reported once a statement has failed.
C28_OneTerminalEvent ==
    /\ Len(TerminalReports) <= 1
    /\ pl_error # None =>
        \A i \in 1..Len(pl_events) : pl_events[i] # "pipeline_complete"
    /\ PipelineOver =>
        /\ Len(TerminalReports) = 1
        /\ pl_events[Len(pl_events)] = TerminalReports[1]
    /\ pl_pc[1] = "returned" =>
        /\ TerminalReports = <<"pipeline_complete">>
        /\ pl_status = "completed"
        /\ pl_calls = FieldsUpTo(pl_kind, "call", Len(Program(pl_kind)))
    /\ pl_pc[1] = "raised" =>
        /\ TerminalReports = <<"pipeline_error">>
        /\ pl_status = "failed"
        /\ pl_error # None
        /\ pl_raised = pl_error

\* a run has raised the error of a failed speech call after reporting
\* pipeline_error to a registered callback
C28_Witness ==
    /\ pl_pc[1] = "raised"
    /\ pl_raised = <<"stage_error",
                     "speech_generator.generate_for_20k_words">>
    /\ "pipeline_error" \in pl_callbacks.registered
    /\ pl_events[Len(pl_events)] = "pipeline_error"

\* ------------------------------------------------------------------------
\* Properties of the overlap removal of _merge_chunks_intelligently
\* (SpecMerge)
\* ------------------------------------------------------------------------

\* the chunk the last iteration of the merge loop appended
LastMergedChunk == mg_chunks[mg_i]

\* an iteration of the loop of RobustTextProcessor has run
RobustMerged == mg_kind = "robust" /\ mg_i >= 2

\* C31: when _find_overlap returns an overlap of the merged text and the
\* next chunk whose length lies between the minimum and the upper bound,
\* the chunk is appended without that prefix.
C31_FoundOverlapStripped ==
    RobustMerged =>
        LET overlap == FindOverlap(mg_prev, LastMergedChunk) IN
        (/\ overlap # << >>
         /\ Len(overlap) >= min_length
         /\ Len(overlap) <= find_overlap_max)
            => mg_merged = ClosePeriod(mg_prev) \o <<NL, NL>>
                    \o LStrip(Drop(LastMergedChunk, Len(overlap) + 1))

\* what the code does: an overlap longer than the significance threshold is
\* the longest common suffix and prefix within the upper bound, and it is
\* removed
C31_SignificantOverlapStripped ==
    RobustMerged =>
        LET overlap == FindOverlap(mg_prev, LastMergedChunk) IN
        (overlap # << >> /\ Len(overlap) > significant_overlap)
            => /\ mg_merged = ClosePeriod(mg_prev) \o <<NL, NL>>
                    \o LStrip(Drop(LastMergedChunk, Len(overlap) + 1))
               /\ \A k \in Len(overlap) + 1 ..
                        Min3(Len(mg_prev), Len(LastMergedChunk),
                             find_overlap_max) :
                     LastN(mg_prev, k) # FirstN(LastMergedChunk, k)

\* ------------------------------------------------------------------------
\* Properties of the pause between batches (SpecSpeech)
\* ------------------------------------------------------------------------

\* the number of the batch that starts at a segment index, counted from 0
BatchNumber(start) == start \div parallel_limit

\* the call and, if it failed, the retry of a segment have both finished
SegmentSettled(k) ==
    /\ k \notin in_flight
    /\ calls[k] = IF k \in first_failed THEN 2 ELSE 1

\* C32: a batch is dispatched after one pause of batch_pause seconds for
\* every batch before it, and after every call and every retry of the
\* batches before it has finished; the pause begins when the calls and
\* retries of the batch are over, and none follows the last batch.
C32_PauseBetweenBatches ==
    /\ sp_pc \in {"gather", "results", "retry"} =>
        /\ sp_slept = batch_pause * BatchNumber(batch_start)
        /\ \A k \in Segments :
              /\ k < batch_start => SegmentSettled(k)
              /\ calls[k] > 0 => k < batch_start + parallel_limit
    /\ sp_pc = "sleep" =>
        /\ BatchEnd(batch_start, num_chunks) < num_chunks
        /\ sp_slept = batch_pause * BatchNumber(batch_start)
        /\ \A k \in Segments :
              IF k < BatchEnd(batch_start, num_chunks)
              THEN SegmentSettled(k)
              ELSE calls[k] = 0
    /\ sp_pc = "done" =>
        /\ \A k \in Segments : SegmentSettled(k)
        /\ sp_slept = IF num_chunks = 0 THEN 0
                      ELSE batch_pause * BatchNumber(num_chunks - 1)

\* the second batch is in flight after one pause, the first batch having
\* had a retry
C32_Witness ==
    /\ sp_pc = "gather"
    /\ batch_start = parallel_limit
    /\ in_flight # {}
    /\ first_failed # {}
    /\ sp_slept = batch_pause

\* ------------------------------------------------------------------------
\* Properties of the target word count of a chunk (SpecDocument)
\* ------------------------------------------------------------------------

\* a chunk call of the TextProcessor loop is out
TextChunkCall == st_kind = "text" /\ st_pc = "in_call"

\* a chunk call of the sliding window is out
WindowChunkCall == pr_stage = "chunk" /\ pr_pc = "in_call"

\* C33: the target word count in the prompt of chunk i is the overall
\* target less the words of the chunks before, divided by the number of
\* chunks from i on, in the TextProcessor loop and in the sliding window.
C33_TargetRebalanced ==
    /\ TextChunkCall =>
          st_request.words_per_chunk =
              (text_output_target - WordCount(st_parts))
                  \div (st_total - st_i)
    /\ WindowChunkCall =>
          pr_prompt.target_words_per_chunk =
              (output_target - WordCount(pr_parts))
                  \div (pr_total - pr_chunk_i)

\* the TextProcessor loop alone does as C33 says
C33_TextTargetRebalanced ==
    TextChunkCall =>
        st_request.words_per_chunk =
            (text_output_target - WordCount(st_parts)) \div (st_total - st_i)

\* ------------------------------------------------------------------------
\* Properties of the division of the per-chunk target (SpecAdapt,
\* SpecDocument)
\* ------------------------------------------------------------------------

\* C34: _adapt_prompt_for_length does not divide by zero, also when it is
\* called with chunk_index equal to total_chunks.
C34_AdaptGuarded ==
    fn_pc = "done" => fn_result[1] # "ZeroDivisionError"

\* the calls the loops make never divide by zero: in the TextProcessor loop
\* chunk_index is below total_chunks, and the sliding window computes
\* 20000 // len(chunks) inside the loop over the chunks only
C34_LoopsNeverDivideByZero ==
    /\ TextChunkCall => st_total - st_i >= 1
    /\ WindowChunkCall => pr_total >= 1

\* ------------------------------------------------------------------------
\* Properties of _extract_summary (SpecSummary)
\* ------------------------------------------------------------------------

\* C35: the summary returned for a processed text is at most max_length
\* characters long.
C35_SummaryWithinMaxLength ==
    fn_pc = "done" => Len(fn_result) <= summary_max_length

\* what the code bounds: the sentences of the summary without the ". "
\* between them and the final full stop are shorter than max_length
C35_SentencesWithinMaxLength ==
    fn_pc = "done" =>
        LET parts == SplitOn(SubSeq(fn_result, 1, Len(fn_result) - 1),
                             ".", " ")
        IN  Len(fn_result) - 1 - 2 * (Len(parts) - 1) < summary_max_length

\* ------------------------------------------------------------------------
\* Properties of the cache key (SpecProcess)
\* ------------------------------------------------------------------------

\* C36: a run whose lookup hit returns a text that a run with the same
\* payload stored: the run before it, which stored the text, had the same
\* payload.
C36_HitIsOwnPayload ==
    (/\ LookupHit
     /\ pr_pc = "returned"
     /\ pr_prev # None
     /\ pr_prev.outcome = "returned"
     /\ pr_result = pr_prev.result) =>
        pr_prev.payload = pr_args.payload

\* a hit is always on the key of the payload's first 1000 characters
C36_HitIsOwnPrefix ==
    (/\ LookupHit
     /\ pr_pc = "returned"
     /\ pr_prev # None
     /\ pr_prev.outcome = "returned"
     /\ pr_prev.calls > 0) =>
        pr_prev.payload.prefix = pr_args.payload.prefix

\* ------------------------------------------------------------------------
\* Properties of the segments of _split_text_for_speech (SpecSplit,
\* SpecParagraphs)
\* ------------------------------------------------------------------------

\* C37: no returned segment is empty or made of whitespace only.
C37_NoEmptySegment ==
    split_pc = "done" =>
        \A j \in DOMAIN split_chunks : Strip(split_chunks[j]) # << >>

\* a text without full stops and whitespace at its right end
RECURSIVE RStripStops(_)
RStripStops(s) ==
    IF s # << >> /\ s[Len(s)] \in Whitespace \cup {"."}
    THEN RStripStops(SubSeq(s, 1, Len(s) - 1)) ELSE s

\* the pieces that are not empty, each without surrounding whitespace and
\* without the full stops that end it
RECURSIVE Contents(_)
Contents(pieces) ==
    IF pieces = << >> THEN << >>
    ELSE LET content == RStripStops(LStrip(Head(pieces))) IN
         IF content = << >> THEN Contents(Tail(pieces))
         ELSE <<content>> \o Contents(Tail(pieces))

\* the sentences of the paragraphs of a list of texts, in order
RECURSIVE SentencesOf(_)
SentencesOf(paragraphs) ==
    IF paragraphs = << >> THEN << >>
    ELSE SplitOn(Head(paragraphs), ".", " ")
            \o SentencesOf(Tail(paragraphs))

RECURSIVE ParagraphsOf(_)
ParagraphsOf(texts) ==
    IF texts = << >> THEN << >>
    ELSE SplitOn(Head(texts), NL, NL) \o ParagraphsOf(Tail(texts))

\* the sentences of a list of texts, in order
TextContents(texts) == Contents(SentencesOf(ParagraphsOf(texts)))

\* C38: the sentences of the paragraphs of the segments, read in index
\* order, are the sentences of the paragraphs of the input in input order,
\* each one once.
C38_ContentKept ==
    split_pc = "done" =>
        TextContents(split_chunks) = TextContents(<<split_text>>)

\* an oversized paragraph of two sentences between two ordinary paragraphs
\* was cut into several segments
C38_Witness ==
    /\ split_pc = "done"
    /\ Len(split_chunks) >= 3
    /\ LET paragraphs == SplitOn(split_text, NL, NL) IN
       /\ Len(paragraphs) = 3
       /\ Len(paragraphs[2]) > max_chunk_size
       /\ Len(TextContents(<<paragraphs[2]>>)) >= 2
       /\ TextContents(<<paragraphs[1]>>) # << >>
       /\ TextContents(<<paragraphs[3]>>) # << >>

\* ------------------------------------------------------------------------
\* Properties of the order of events and calls (SpecPipeline)
\* ------------------------------------------------------------------------

\* the elements of a sequence
Elements(seq) == {seq[i] : i \in DOMAIN seq}

\* the calls of each stage of UpdatedTextPipeline.process
StageCalls ==
    [download |-> {"youtube.download"},
     transcribe |-> {"youtube.extract_audio", "transcriber.transcribe"},
     process |-> {"text_processor._create_story_plan",
                  "text_processor._write_story_from_plan"},
     speech |-> {"speech_generator.generate_for_20k_words"},
     upload |-> {"storage.upload_project"}]

StartEvent ==
    [download |-> "download_start", transcribe |-> "transcribe_start",
     process |-> "process_start", speech |-> "speech_start",
     upload |-> "upload_start"]

CompleteEvent ==
    [download |-> "download_complete", transcribe |-> "transcribe_complete",
     process |-> "process_complete", speech |-> "speech_complete",
     upload |-> "upload_complete"]

\* the start event of a stage is there before any call of the stage is
\* made, and its complete event only after all of them have returned
StageEventsBracketWork ==
    \A stage \in DOMAIN StageCalls :
        /\ StageCalls[stage] \cap Elements(pl_calls) # {} =>
              StartEvent[stage] \in Elements(pl_events)
        /\ CompleteEvent[stage] \in Elements(pl_events) =>
              /\ StageCalls[stage] \subseteq Elements(pl_calls)
              /\ pl_error # None => pl_error[2] \notin StageCalls[stage]

\* C39: in UpdatedTextPipeline.process the start event of a stage comes
\* before the calls of the stage and the complete event after them;
\* claude_plan_start comes before the call that creates the plan, and
\* claude_story_start after that call has returned and before the call
\* that writes the story.
C39_EventsBeforeWork ==
    pl_kind = "updated" =>
        /\ StageEventsBracketWork
        /\ "text_processor._create_story_plan" \in Elements(pl_calls) =>
              "claude_plan_start" \in Elements(pl_events)
        /\ "claude_story_start" \in Elements(pl_events) =>
              "text_processor._create_story_plan" \in Elements(pl_calls)
        /\ "text_processor._write_story_from_plan" \in Elements(pl_calls) =>
              "claude_story_start" \in Elements(pl_events)

\* all of C39 but the place of claude_story_start
C39_StageEventsBracketWork ==
    pl_kind = "updated" =>
        /\ StageEventsBracketWork
        /\ "text_processor._create_story_plan" \in Elements(pl_calls) =>
              "claude_plan_start" \in Elements(pl_events)
        /\ "claude_story_start" \in Elements(pl_events) =>
              "text_processor._create_story_plan" \in Elements(pl_calls)

\* ------------------------------------------------------------------------
\* Properties of cancel_process (SpecBot)
\* ------------------------------------------------------------------------

\* C40: once cancel_process has run for a project, every step leaves the
\* status of the project at failed and sends no completion message for it.
C40_CancelledStaysFailed ==
    [][\A p \in Projects :
          bot_cancelled[p] =>
              /\ bot_status'[p] = "failed"
              /\ bot_sent'[p] => bot_sent[p]]_vars

=============================================================================
